---- MODULE Spec2Model ----
(***************************************************************************)
(* Secure media delivery of cinematacms: path validation and               *)
(* classification, path-to-media resolution with its forward/reverse path  *)
(* cache, the permission check with its permission and elevated-access     *)
(* caches, and the versioned query-cache keys.                             *)
(*                                                                         *)
(* A string is held in the state as a TLA+ string and read through Atoms   *)
(* as a sequence of atoms.  An atom stands for a run of characters that no *)
(* other atom overlaps ("/" is an atom of its own), so the string          *)
(* operations of the code (startswith, endswith, split('/'), splitext)     *)
(* are the corresponding operations on atom sequences.                     *)
(***************************************************************************)
EXTENDS Integers, Sequences, FiniteSets, TLC

None == "None"

\* The strings of the model (paths, file names, request paths) and their atoms.
AtomsTable ==
    [n \in {""} |-> <<>>]
    @@ ("original/user/alice/a.mp4" :> <<"original", "/", "user", "/", "alice", "/", "a", ".mp4">>)
    @@ ("original/user/bob/b.mp4" :> <<"original", "/", "user", "/", "bob", "/", "b", ".mp4">>)
    @@ ("original/thumbnails/user/alice/thumb.jpg" :>
           <<"original", "/", "thumbnails", "/", "user", "/", "alice", "/", "thumb", ".jpg">>)
    @@ ("original/thumbnails/user/alice/video_thumb.jpg" :>
           <<"original", "/", "thumbnails", "/", "user", "/", "alice", "/", "video_", "thumb", ".jpg">>)
    @@ ("original/thumbnails/user/alice/poster.jpg" :>
           <<"original", "/", "thumbnails", "/", "user", "/", "alice", "/", "poster", ".jpg">>)
    @@ ("original/subtitles/user/alice/subs.vtt" :>
           <<"original", "/", "subtitles", "/", "user", "/", "alice", "/", "subs", ".vtt">>)
    @@ ("encoded/22/alice/a.mp4" :> <<"encoded", "/", "22", "/", "alice", "/", "a", ".mp4">>)
    @@ ("encoded/5/alice/a.gif" :> <<"encoded", "/", "5", "/", "alice", "/", "a", ".gif">>)
    @@ ("original/user/alice/a.mp3" :> <<"original", "/", "user", "/", "alice", "/", "a", ".mp3">>)
    @@ ("a.mp3" :> <<"a", ".mp3">>)
    @@ ("original/user/alice/x1.a.mp4" :>
           <<"original", "/", "user", "/", "alice", "/", "x1.", "a", ".mp4">>)
    @@ ("x1.a.mp4" :> <<"x1.", "a", ".mp4">>)
    @@ ("a.mp4" :> <<"a", ".mp4">>)
    @@ ("b.mp4" :> <<"b", ".mp4">>)
    @@ ("a.gif" :> <<"a", ".gif">>)
    @@ ("hls/uid-a/x.m3u8" :> <<"hls", "/", "uid-a", "/", "x", ".m3u8">>)
    @@ ("encoded/22/alice/x1.a.mp4" :>
           <<"encoded", "/", "22", "/", "alice", "/", "x1.", "a", ".mp4">>)
    @@ ("original/user/bob/a.mp4" :> <<"original", "/", "user", "/", "bob", "/", "a", ".mp4">>)
    @@ ("encoded/22/bob/a.mp4" :> <<"encoded", "/", "22", "/", "bob", "/", "a", ".mp4">>)
    @@ ("/home/cinemata/cinematacms/media_files/original/thumbnails/user/alice/thumb.jpg" :>
           <<"/", "home", "/", "cinemata", "/", "cinematacms", "/", "media_files", "/",
             "original", "/", "thumbnails", "/", "user", "/", "alice", "/", "thumb", ".jpg">>)
    @@ ("/home/other/media_files/original/thumbnails/user/alice/thumb.jpg" :>
           <<"/", "home", "/", "other", "/", "media_files", "/",
             "original", "/", "thumbnails", "/", "user", "/", "alice", "/", "thumb", ".jpg">>)

Atoms(n) == AtomsTable[n]

\* The string whose atoms are seq.
RECURSIVE Str(_)
Str(seq) == IF seq = <<>> THEN "" ELSE Head(seq) \o Str(Tail(seq))

\* ---------------------------------------------------------------- strings

StartsWith(s, p) == Len(p) <= Len(s) /\ SubSeq(s, 1, Len(p)) = p

EndsWith(s, p) == Len(p) <= Len(s) /\ SubSeq(s, Len(s) - Len(p) + 1, Len(s)) = p

\* str.split('/'): the parts between the separators, empty parts kept.
RECURSIVE SplitFrom(_, _, _)
SplitFrom(s, i, cur) ==
    IF i > Len(s) THEN <<cur>>
    ELSE IF s[i] = "/" THEN <<cur>> \o SplitFrom(s, i + 1, <<>>)
    ELSE SplitFrom(s, i + 1, Append(cur, s[i]))

Split(s) == SplitFrom(s, 1, <<>>)

\* str.lower() on an atom: the only upper-case atom of the model is ".GIF".
LowerAtom(a) == IF a = ".GIF" THEN ".gif" ELSE a

Lower(s) == [i \in 1..Len(s) |-> LowerAtom(s[i])]

\* urllib.parse.unquote: percent escapes become the characters they encode.
UnquoteAtom(a) ==
    CASE a = "%2E%2E" -> ".."
      [] a = "%00" -> "NUL"
      [] a = "%2F" -> "/"
      [] OTHER -> a

unquote(s) == [i \in 1..Len(s) |-> UnquoteAtom(s[i])]

ExtAtoms == {".mp4", ".jpg", ".gif", ".GIF", ".vtt", ".m3u8", ".ts", ".txt", ".qt"}

\* os.path.splitext(path)[1]: the extension of the last component; a leading
\* dot of the component is not an extension.
splitext(s) ==
    IF Len(s) >= 2 /\ s[Len(s)] \in ExtAtoms /\ s[Len(s) - 1] # "/"
    THEN s[Len(s)] ELSE ""

\* ------------------------------------------------- validation, classification

PUBLIC_MEDIA_PATHS ==
    << <<"userlogos", "/">>, <<"logos", "/">>, <<"favicons", "/">>,
       <<"social-media-icons", "/">>, <<"tinymce_media", "/">>,
       <<"homepage-popups", "/">>,
       <<"original", "/", "categories", "/">>, <<"original", "/", "topics", "/">> >>

InvalidAtoms_NoDotDot == {"\\", "NUL", "CTL"}

\* INVALID_PATH_PATTERNS: '..', backslash, NUL, control characters.
InvalidAtoms == {"..", "\\", "NUL", "CTL"}

INVALID_PATH_PATTERNS(s) == \E i \in 1..Len(s) : s[i] \in InvalidAtoms

allowed_prefixes ==
    { <<"videos", "/", "media", "/">>, <<"videos", "/", "encoded", "/">>,
      <<"videos", "/", "subtitles", "/">>, <<"other_media", "/">>,
      <<"hls", "/">>, <<"encoded", "/">>, <<"original", "/">> }
    \cup { PUBLIC_MEDIA_PATHS[i] : i \in 1..Len(PUBLIC_MEDIA_PATHS) }
    \cup { <<"original", "/">> \o PUBLIC_MEDIA_PATHS[i] : i \in 1..Len(PUBLIC_MEDIA_PATHS) }

is_valid_file_path(file_path) ==
    IF INVALID_PATH_PATTERNS(file_path) THEN FALSE
    ELSE IF StartsWith(file_path, <<"/">>) THEN FALSE
    ELSE \E prefix \in allowed_prefixes : StartsWith(file_path, prefix)

is_public_media_file_ListOnly(file_path) ==
    \E i \in 1..Len(PUBLIC_MEDIA_PATHS) : StartsWith(file_path, PUBLIC_MEDIA_PATHS[i])

is_public_media_file(file_path) ==
    \/ \E i \in 1..Len(PUBLIC_MEDIA_PATHS) : StartsWith(file_path, PUBLIC_MEDIA_PATHS[i])
    \/ StartsWith(file_path, <<"original", "/", "userlogos", "/">>)

ThumbPrefix == <<"original", "/", "thumbnails", "/", "user", "/">>
SubtitlePrefix == <<"original", "/", "subtitles", "/", "user", "/">>
OriginalPrefix == <<"original", "/", "user", "/">>
EncodedPrefix == <<"encoded", "/">>
HlsPrefix == <<"hls", "/">>

\* file_path.startswith('encoded/') and file_path.lower().endswith('.gif')
IsEncodedGif(file_path) ==
    StartsWith(file_path, EncodedPrefix) /\ EndsWith(Lower(file_path), <<".gif">>)

is_media_associated_file_CaseSensitive(file_path) ==
    \/ StartsWith(file_path, ThumbPrefix)
    \/ StartsWith(file_path, EncodedPrefix) /\ EndsWith(file_path, <<".gif">>)
    \/ StartsWith(file_path, SubtitlePrefix)

is_media_associated_file(file_path) ==
    \/ StartsWith(file_path, ThumbPrefix)
    \/ IsEncodedGif(file_path)
    \/ StartsWith(file_path, SubtitlePrefix)

video_extensions == {".mp4", ".m3u8", ".ts"}

\* CONTENT_TYPES.get(ext), then mimetypes.guess_type for an unlisted extension.
content_type(file_path) ==
    LET ext == LowerAtom(splitext(file_path)) IN
    CASE ext = ".mp4" -> "video/mp4"
      [] ext = ".mp3" -> "audio/mpeg"
      [] ext = ".jpg" -> "image/jpeg"
      [] ext = ".gif" -> "image/gif"
      [] ext = ".vtt" -> "text/vtt"
      [] ext = ".m3u8" -> "application/vnd.apple.mpegurl"
      [] ext = ".ts" -> "video/mp2t"
      [] ext = ".txt" -> "text/plain"
      [] ext = ".qt" -> "video/quicktime"
      [] OTHER -> None

IsVideoType(ct) == ct \in {"video/mp4", "video/mp2t", "video/quicktime"}

is_non_video_file(file_path) ==
    IF is_media_associated_file(file_path) THEN FALSE
    ELSE IF LowerAtom(splitext(file_path)) \in video_extensions THEN FALSE
    ELSE LET ct == content_type(file_path)
             is_video_by_content_type ==
                 IsVideoType(ct) \/ ct = "application/vnd.apple.mpegurl"
             is_in_hls_directory == StartsWith(file_path, HlsPrefix)
         IN ~(is_video_by_content_type \/ is_in_hls_directory)

\* ------------------------------------------------------------ metadata store

VARIABLES
    roles,         \* user -> the role flags the account holds
    media,         \* Media rows: id -> row
    encodings,     \* Encoding rows: id -> row
    subtitles,     \* Subtitle rows: id -> row
    pathCache,     \* forward path cache: key -> Media id
    reverseIndex,  \* reverse mapping: Media id -> set of forward cache keys
    permCache,     \* permission cache: key -> None | TRUE | FALSE
    versions,      \* cache version counters: <<scope, identifier>> -> 0 (absent) | n
    resp,          \* the last request and the response it got
    issued,        \* the query-cache keys handed out: before the latest bump of
                   \* a counter they embed, and since
    inflight       \* calls under way: caller -> the position and the locals of
                   \* its call

vars == <<roles, media, encodings, subtitles, pathCache, reverseIndex,
          permCache, versions, resp, issued, inflight>>

NoMedia == 0
MediaIds == {1, 2}
EncodingIds == {1, 2}
SubtitleIds == {1}
Users == {"alice", "bob", "carol"}
States == {"public", "unlisted", "restricted", "private"}

\* Media.uid and Media.friendly_token are fixed at creation.
UidOf(m) == IF m = 1 THEN "uid-a" ELSE "uid-b"
TokenOf(m) == IF m = 1 THEN "tok-a" ELSE "tok-b"

Exists(m) == m \in MediaIds /\ media[m].exists

\* The rows a queryset filter selects.
MediaWhere(P(_)) == {m \in MediaIds : media[m].exists /\ P(m)}
EncodingWhere(P(_)) == {e \in EncodingIds : encodings[e].exists /\ Exists(encodings[e].media) /\ P(e)}
SubtitleWhere(P(_)) == {s \in SubtitleIds : subtitles[s].exists /\ Exists(subtitles[s].media) /\ P(s)}

\* The atoms of a row's string fields.
FileOf(m) == Atoms(media[m].media_file)
NameOf(m) == Atoms(media[m].filename)
EncFileOf(e) == Atoms(encodings[e].media_file)
EncNameOf(e) == Atoms(encodings[e].filename)
SubFileOf(s) == Atoms(subtitles[s].subtitle_file)

Min(S) == CHOOSE x \in S : \A y \in S : x <= y
Max(S) == CHOOSE x \in S : \A y \in S : x >= y

\* queryset[:n] of a queryset ordered by id.
RECURSIVE FirstN(_, _)
FirstN(S, n) ==
    IF n = 0 \/ S = {} THEN <<>>
    ELSE <<Min(S)>> \o FirstN(S \ {Min(S)}, n - 1)

\* ------------------------------------------------------------ path resolution

Result(m, actual, fillM, fillE) ==
    [media |-> m, actual |-> actual, fillMedia |-> fillM, fillEncoding |-> fillE]

\* The empty path stands for Python's None where a path is expected.
NoPath == ""

NotFound == Result(NoMedia, NoPath, NoMedia, 0)
Found(m) == Result(m, NoPath, NoMedia, 0)

thumbnail_paths(m) ==
    { Atoms(p) : p \in { q \in { media[m].thumbnail, media[m].poster,
                                 media[m].uploaded_thumbnail, media[m].uploaded_poster,
                                 media[m].sprites } : q # "" } }

verify_media_owns_thumbnail_path_Suffix(m, file_path) ==
    \E f \in thumbnail_paths(m) : EndsWith(f, Split(file_path)[5])

verify_media_owns_thumbnail_path(m, file_path) ==
    IF file_path \in thumbnail_paths(m) THEN TRUE
    ELSE IF IsEncodedGif(file_path)
         THEN EncodingWhere(LAMBDA e : encodings[e].media = m
                                        /\ EncFileOf(e) = file_path) # {}
         ELSE FALSE

resolve_original_NoOverride(file_path) ==
    LET parts == Split(file_path) IN
    IF Len(parts) < 4 THEN {NotFound}
    ELSE
    LET username == parts[3]
        filename == parts[4]
        byName == MediaWhere(LAMBDA m : <<media[m].user>> = username
                                         /\ NameOf(m) = filename)
        byPath == MediaWhere(LAMBDA m : <<media[m].user>> = username
                                         /\ EndsWith(FileOf(m), filename))
        anyOwner == MediaWhere(LAMBDA m : NameOf(m) = filename)
    IN  IF byName # {} THEN {Found(m) : m \in byName}
        ELSE IF byPath # {}
        THEN {Result(m, NoPath, IF media[m].filename = "" THEN m ELSE NoMedia, 0) : m \in byPath}
        ELSE IF anyOwner # {}
        THEN {IF media[m].media_file = "" THEN NotFound ELSE Found(m) : m \in anyOwner}
        ELSE {NotFound}

\* original/user/{username}/{filename}
resolve_original(file_path) ==
    LET parts == Split(file_path) IN
    IF Len(parts) < 4 THEN {NotFound}
    ELSE
    LET username == parts[3]
        filename == parts[4]
        byName == MediaWhere(LAMBDA m : <<media[m].user>> = username
                                         /\ NameOf(m) = filename)
        byPath == MediaWhere(LAMBDA m : <<media[m].user>> = username
                                         /\ EndsWith(FileOf(m), filename))
        anyOwner == MediaWhere(LAMBDA m : NameOf(m) = filename)
    IN  IF byName # {} THEN {Found(m) : m \in byName}
        ELSE IF byPath # {}
        THEN {Result(m, NoPath, IF media[m].filename = "" THEN m ELSE NoMedia, 0) : m \in byPath}
        ELSE IF anyOwner # {}
        THEN {IF media[m].media_file = "" THEN NotFound
              ELSE Result(m, media[m].media_file, NoMedia, 0) : m \in anyOwner}
        ELSE {NotFound}

MatchLimit == 10

\* The loop over matches[:10]: the first verified match of the path's user
\* wins, else the first verified match of another user.
RECURSIVE ScanMatches(_, _, _, _)
ScanMatches(ms, username, file_path, transfer) ==
    IF Len(ms) = 0 THEN transfer
    ELSE LET m == Head(ms) IN
         IF verify_media_owns_thumbnail_path(m, file_path)
         THEN IF <<media[m].user>> = username THEN m
              ELSE ScanMatches(Tail(ms), username, file_path,
                               IF transfer = NoMedia THEN m ELSE transfer)
         ELSE ScanMatches(Tail(ms), username, file_path, transfer)

ThumbFields(m) ==
    { Atoms(p) : p \in { media[m].thumbnail, media[m].poster, media[m].uploaded_thumbnail,
                         media[m].uploaded_poster, media[m].sprites } }

\* original/thumbnails/user/{username}/{filename}
resolve_thumbnail(file_path) ==
    LET parts == Split(file_path) IN
    IF Len(parts) < 5 THEN {NotFound}
    ELSE
    LET username == parts[4]
        filename == parts[5]
        thumbnail_path == ThumbPrefix \o username \o <<"/">> \o filename
        exact == MediaWhere(LAMBDA m : <<media[m].user>> = username
                                        /\ thumbnail_path \in ThumbFields(m))
        matches == MediaWhere(LAMBDA m : \E f \in ThumbFields(m) : EndsWith(f, filename))
        picked == ScanMatches(FirstN(matches, MatchLimit), username, file_path, NoMedia)
    IN  IF exact # {} THEN {Found(Min(exact))}
        ELSE IF picked # NoMedia THEN {Found(picked)}
        ELSE {NotFound}

\* original/subtitles/user/{username}/{filename}
resolve_subtitle(file_path) ==
    LET parts == Split(file_path) IN
    IF Len(parts) < 5 THEN {NotFound}
    ELSE
    LET username == parts[4]
        filename == parts[5]
        OwnerOf(s) == <<media[subtitles[s].media].user>>
        exact == SubtitleWhere(LAMBDA s : OwnerOf(s) = username
                                           /\ SubFileOf(s) = file_path)
        bySuffix == SubtitleWhere(LAMBDA s : OwnerOf(s) = username
                                              /\ EndsWith(SubFileOf(s), filename))
        anyOwner == SubtitleWhere(LAMBDA s : EndsWith(SubFileOf(s), filename))
        Transfer ==
            IF anyOwner # {} /\ SubFileOf(Max(anyOwner)) = file_path
            THEN Found(subtitles[Max(anyOwner)].media)
            ELSE NotFound
    IN  IF exact # {} THEN {Found(subtitles[s].media) : s \in exact}
        ELSE IF bySuffix # {}
        THEN {IF SubFileOf(s) = file_path
              THEN Found(subtitles[s].media) ELSE Transfer : s \in bySuffix}
        ELSE {Transfer}

IsDigit(seg) == seg \in {<<"22">>, <<"5">>}

\* encoded/{profile_id}/{username}/{filename}
resolve_encoded(file_path) ==
    LET parts == Split(file_path) IN
    IF Len(parts) < 4 THEN {NotFound}
    ELSE
    LET profile_id_str == parts[2]
        username == parts[3]
        filename == parts[4]
        Profile(e) == IsDigit(profile_id_str) => <<encodings[e].profile_id>> = profile_id_str
        OwnerOf(e) == <<media[encodings[e].media].user>>
        byName == EncodingWhere(LAMBDA e : OwnerOf(e) = username
                                            /\ EncNameOf(e) = filename /\ Profile(e))
        byPath == EncodingWhere(LAMBDA e : OwnerOf(e) = username
                                            /\ EndsWith(EncFileOf(e), filename)
                                            /\ Profile(e))
        anyOwner == EncodingWhere(LAMBDA e : EncNameOf(e) = filename /\ Profile(e))
    IN  IF byName # {} THEN {Found(encodings[e].media) : e \in byName}
        ELSE IF byPath # {}
        THEN {Result(encodings[e].media, NoPath, NoMedia,
                     IF encodings[e].filename = "" THEN e ELSE 0) : e \in byPath}
        ELSE IF anyOwner # {}
        THEN {IF encodings[e].media_file = "" THEN NotFound
              ELSE Result(encodings[e].media, encodings[e].media_file, NoMedia, 0) : e \in anyOwner}
        ELSE {NotFound}

\* The strings of hexadecimal digits and nothing else, with their lengths.
HexLen(a) ==
    CASE a = "uid-a" -> 32
      [] a = "uid-b" -> 32
      [] a = "abc" -> 3
      [] OTHER -> 0

\* The length of a when int(a, 16) returns, 0 when it raises ValueError:
\* the strings of hexadecimal digits, and the other literals int() reads in
\* base 16, a 0x prefix and an underscore between two digits.
Base16Len(a) ==
    CASE HexLen(a) > 0 -> HexLen(a)
      [] a = "0x1234567" -> 9
      [] a = "1234_5678" -> 9
      [] OTHER -> 0

is_valid_uid(uid_str) ==
    IF Len(uid_str) # 1 THEN FALSE
    ELSE IF Base16Len(uid_str[1]) < 8 \/ Base16Len(uid_str[1]) > 64 THEN FALSE
    ELSE TRUE

\* The identifiers the hls branch queries the Media table for: the folder
\* segment when _is_valid_uid accepts it, none otherwise.
hls_lookup(file_path) ==
    LET parts == Split(file_path) IN
    IF Len(parts) < 3 THEN {}
    ELSE IF is_valid_uid(parts[2]) THEN {parts[2]}
    ELSE {}

\* hls/{uid}/{filename}; a query that raises is caught and finds nothing.
resolve_hls(file_path) ==
    LET byUid == MediaWhere(LAMBDA m : \E uid \in hls_lookup(file_path) : <<UidOf(m)>> = uid)
    IN  IF byUid # {}
        THEN {Found(m) : m \in byUid}
        ELSE {NotFound}

\* The results _get_media_from_path can return: one per row an unordered
\* .first() may pick.
get_media_from_path(file_path) ==
    IF StartsWith(file_path, OriginalPrefix) THEN resolve_original(file_path)
    ELSE IF StartsWith(file_path, ThumbPrefix) THEN resolve_thumbnail(file_path)
    ELSE IF StartsWith(file_path, SubtitlePrefix) THEN resolve_subtitle(file_path)
    ELSE IF StartsWith(file_path, EncodedPrefix) THEN resolve_encoded(file_path)
    ELSE IF StartsWith(file_path, HlsPrefix) THEN resolve_hls(file_path)
    ELSE {NotFound}

\* -------------------------------------------------------------- path cache

\* get_media_path_cache_key: "cinemata:media_path:" + sha256(path).  SHA-256
\* is taken to be injective on the paths of the model, so the key is the path.
get_media_path_cache_key(file_path) == Str(file_path)

\* cache.get(cache_key), NoMedia for Python's None.
get_cached_media_id(file_path) ==
    LET cache_key == get_media_path_cache_key(file_path)
    IN  IF cache_key \in DOMAIN pathCache THEN pathCache[cache_key] ELSE NoMedia

\* set_cached_media_id: the forward entry and the reverse mapping after it.
set_cached_forward(pc, file_path, media_id) ==
    LET cache_key == get_media_path_cache_key(file_path)
    IN  [k \in DOMAIN pc \cup {cache_key} |-> IF k = cache_key THEN media_id ELSE pc[k]]

set_cached_reverse(ri, file_path, media_id) ==
    [ri EXCEPT ![media_id] = @ \cup {get_media_path_cache_key(file_path)}]

NeedsVerify_ThumbnailsOnly(file_path) == StartsWith(file_path, ThumbPrefix)

NeedsVerify(file_path) == StartsWith(file_path, ThumbPrefix) \/ IsEncodedGif(file_path)

\* _get_media_from_path_cached: the results it can return, each with the path
\* cache it leaves.  via: "cache" (hit, trusted), "fresh" (miss), "evicted"
\* (hit, failed verification, entry deleted, fresh lookup), "stale" (hit on a
\* deleted Media, fresh lookup).
get_media_from_path_cached(file_path) ==
    LET cached_media_id == get_cached_media_id(file_path)
        hit == cached_media_id # NoMedia
        alive == hit /\ Exists(cached_media_id)
        trusted == alive /\ (NeedsVerify(file_path)
                               => verify_media_owns_thumbnail_path(cached_media_id, file_path))
        evict == alive /\ ~trusted
        pc0 == IF evict
               THEN [k \in DOMAIN pathCache \ {get_media_path_cache_key(file_path)}
                        |-> pathCache[k]]
               ELSE pathCache
        via == IF ~hit THEN "fresh" ELSE IF ~alive THEN "stale" ELSE "evicted"
    IN  IF trusted
        THEN { [res |-> Found(cached_media_id), pc |-> pathCache, ri |-> reverseIndex,
                via |-> "cache"] }
        ELSE { [res |-> r,
                pc |-> IF r.media # NoMedia THEN set_cached_forward(pc0, file_path, r.media)
                       ELSE pc0,
                ri |-> IF r.media # NoMedia
                       THEN set_cached_reverse(reverseIndex, file_path, r.media)
                       ELSE reverseIndex,
                via |-> via] : r \in get_media_from_path(file_path) }

\* --------------------------------------------------------------- permissions

Anonymous == "anonymous"

is_authenticated(user) == user # Anonymous

is_mediacms_editor_NoEditorFlag(user) ==
    roles[user] \cap {"is_superuser", "is_manager"} # {}

is_mediacms_editor(user) ==
    roles[user] \cap {"is_superuser", "is_manager", "is_editor"} # {}

is_mediacms_manager(user) ==
    roles[user] \cap {"is_superuser", "is_manager"} # {}

is_curator(user) == "is_curator" \in roles[user]

\* hashlib.sha256(x).hexdigest(), taken to be injective on the texts of the model.
sha256(x) ==
    CASE x = "p1" -> "sha(p1)"
      [] x = "p2" -> "sha(p2)"
      [] x = "no_password" -> "sha(no_password)"
      [] x = "sha(p1)" -> "sha(sha(p1))"
      [] x = "sha(p2)" -> "sha(sha(p2))"
      [] OTHER -> "sha(other)"

get_elevated_access_cache_key(user_id, media_uid) ==
    <<"elevated_access", user_id, media_uid, "">>

get_permission_cache_key(user_id, media_uid, additional_data) ==
    <<"media_permission", user_id, media_uid, additional_data>>

\* cache.get(cache_key): <<v>> for a stored decision v, <<>> for Python's None.
get_cached_permission(cache, cache_key) ==
    IF cache_key \in DOMAIN cache THEN <<cache[cache_key]>> ELSE <<>>

set_cached_permission(cache, cache_key, result) ==
    [k \in DOMAIN cache \cup {cache_key} |-> IF k = cache_key THEN result ELSE cache[k]]

\* _user_has_elevated_access: the result and the cache it leaves.
user_has_elevated_access(user, m, cache) ==
    IF ~is_authenticated(user) THEN [result |-> FALSE, cache |-> cache, hit |-> FALSE]
    ELSE
    LET cache_key == get_elevated_access_cache_key(user, UidOf(m))
        cached_result == get_cached_permission(cache, cache_key)
        result == \/ user = media[m].user
                  \/ is_mediacms_editor(user)
                  \/ is_mediacms_manager(user)
                  \/ is_curator(user)
    IN  IF cached_result # <<>>
        THEN [result |-> cached_result[1], cache |-> cache, hit |-> TRUE]
        ELSE [result |-> result, cache |-> set_cached_permission(cache, cache_key, result),
              hit |-> FALSE]

expected_password_hash_Never(m) == ""

\* The stored password's hash, or nothing when no password is set.
expected_password_hash(m) ==
    IF media[m].password # "" THEN sha256(media[m].password) ELSE ""

\* _calculate_access_permission: the result and the cache it leaves.
calculate_access_permission(user, session_password_hash, query_password, m, cache) ==
    LET elev == IF is_authenticated(user) THEN user_has_elevated_access(user, m, cache)
                ELSE [result |-> FALSE, cache |-> cache, hit |-> FALSE]
        valid_session_password ==
            /\ session_password_hash # ""
            /\ expected_password_hash(m) # ""
            /\ session_password_hash = expected_password_hash(m)
        valid_query_password ==
            /\ query_password # ""
            /\ expected_password_hash(m) # ""
            /\ sha256(query_password) = expected_password_hash(m)
        result ==
            IF elev.result THEN TRUE
            ELSE IF media[m].state = "restricted"
                 THEN valid_session_password \/ valid_query_password
                 ELSE FALSE
    IN  [result |-> result, cache |-> elev.cache, elevHit |-> elev.hit]

\* The password-attempt material of the permission cache key.
attempt_material(session_password_hash, query_password) ==
    IF session_password_hash # "" THEN session_password_hash
    ELSE IF query_password # "" THEN sha256(query_password)
    ELSE "no_password"

\* f"restricted:{sha256(attempt_material).hexdigest()[:12]}", the 12-digit
\* prefix taken to be injective on the materials of the model.
additional_data(m, session_password_hash, query_password) ==
    IF media[m].state = "restricted"
    THEN sha256(attempt_material(session_password_hash, query_password))
    ELSE ""

is_open_state_PublicOnly(m) == media[m].state = "public"

\* The states _check_access_permission answers without a cache lookup.
is_open_state(m) == media[m].state \in {"public", "unlisted"}

\* _check_access_permission: the result, the cache it leaves, and what it read.
check_access_permission(user, session_password_hash, query_password, m, cache) ==
    IF is_open_state(m)
    THEN [result |-> TRUE, cache |-> cache, key |-> <<>>, hit |-> FALSE, elevHit |-> FALSE]
    ELSE
    LET cache_key == get_permission_cache_key(
                         user, UidOf(m),
                         additional_data(m, session_password_hash, query_password))
        cached_result == get_cached_permission(cache, cache_key)
        calc == calculate_access_permission(user, session_password_hash, query_password,
                                            m, cache)
    IN  IF cached_result # <<>>
        THEN [result |-> cached_result[1], cache |-> cache, key |-> cache_key, hit |-> TRUE,
              elevHit |-> FALSE]
        ELSE [result |-> calc.result,
              cache |-> set_cached_permission(calc.cache, cache_key, calc.result),
              key |-> cache_key, hit |-> FALSE, elevHit |-> calc.elevHit]

\* ------------------------------------------------------------ cache versions

\* Counters are capped so that the model is finite.
MaxVersion == 3

\* _bump_cache_version on one counter: 1 when absent, else one more (cache.incr,
\* or the read-modify-write fallback, which agree when nothing interleaves).
bump_cache_version(vs, scope, identifier) ==
    [vs EXCEPT ![<<scope, identifier>>] = IF @ = 0 THEN 1 ELSE @ + 1]

\* ------------------------------------------------------------------ requests

NoResp ==
    [raw |-> <<>>, path |-> <<>>, user |-> Anonymous, session |-> "", query |-> "",
     status |-> 0, nostore |-> FALSE, served |-> NoPath, media |-> NoMedia,
     via |-> "none", override |-> NoPath, permKey |-> <<>>, permHit |-> FALSE,
     elevHit |-> FALSE, ver |-> 0, faults |-> {}]

\* Bound on the number of live permission and elevated-access entries.
MaxPermEntries == 2

\* media.save(update_fields=['filename']) / encoding.save(...) of the fallback step.
backfill_media_Overwrite(r, file_path) ==
    IF r.media # NoMedia /\ r.actual = NoPath /\ StartsWith(file_path, OriginalPrefix)
    THEN [media EXCEPT ![r.media].filename = Str(Split(file_path)[4])]
    ELSE media

backfill_media(r, file_path) ==
    IF r.fillMedia # NoMedia
    THEN [media EXCEPT ![r.fillMedia].filename = Str(Split(file_path)[4])]
    ELSE media

backfill_encoding(r, file_path) ==
    IF r.fillEncoding # 0
    THEN [encodings EXCEPT ![r.fillEncoding].filename = Str(Split(file_path)[4])]
    ELSE encodings

\* SecureMediaView._handle_request, for GET and HEAD alike.
HandleRequest(user, raw_path, session_password_hash, query_password) ==
    LET file_path == unquote(raw_path)
        req == [NoResp EXCEPT !.raw = raw_path, !.path = file_path, !.user = user,
                              !.session = session_password_hash,
                              !.query = query_password]
    IN
    IF ~is_valid_file_path(file_path)
    THEN /\ resp' = [req EXCEPT !.status = 404, !.via = "invalid"]
         /\ UNCHANGED <<roles, media, encodings, subtitles, pathCache, reverseIndex,
                        permCache, versions, issued, inflight>>
    ELSE IF is_public_media_file(file_path)
    THEN /\ resp' = [req EXCEPT !.status = 200, !.via = "public", !.served = Str(file_path)]
         /\ UNCHANGED <<roles, media, encodings, subtitles, pathCache, reverseIndex,
                        permCache, versions, issued, inflight>>
    ELSE IF is_non_video_file(file_path)
    THEN /\ resp' = [req EXCEPT !.status = 200, !.via = "non_video", !.served = Str(file_path)]
         /\ UNCHANGED <<roles, media, encodings, subtitles, pathCache, reverseIndex,
                        permCache, versions, issued, inflight>>
    ELSE
    \E c \in get_media_from_path_cached(file_path) :
        LET m == c.res.media
            chk == check_access_permission(user, session_password_hash, query_password,
                                           m, permCache)
            serving_path == IF c.res.actual # NoPath THEN c.res.actual ELSE Str(file_path)
            found == [req EXCEPT !.media = m, !.via = c.via, !.override = c.res.actual]
        IN  /\ pathCache' = c.pc
            /\ reverseIndex' = c.ri
            /\ media' = backfill_media(c.res, file_path)
            /\ encodings' = backfill_encoding(c.res, file_path)
            /\ UNCHANGED <<roles, subtitles, versions, issued, inflight>>
            /\ IF m = NoMedia
               THEN /\ resp' = [found EXCEPT !.status = 404]
                    /\ UNCHANGED permCache
               ELSE /\ permCache' = chk.cache
                    /\ Cardinality(DOMAIN chk.cache) <= MaxPermEntries
                    /\ resp' = [found EXCEPT
                                  !.status = IF chk.result THEN 200 ELSE 403,
                                  !.nostore = ~chk.result,
                                  !.served = IF chk.result THEN serving_path ELSE NoPath,
                                  !.permKey = chk.key, !.permHit = chk.hit,
                                  !.elevHit = chk.elevHit,
                                  !.ver = versions[<<"media", TokenOf(m)>>]]

cache_control_Replace(r) ==
    IF r.status \in {0, 404} THEN {} ELSE {"max-age=604800", "private"}

\* The Cache-Control directives of a response: Http404 is raised through the
\* cache_control decorator of get/head and gets none; a returned response keeps
\* its own directives (no-store on the 403) and is patched with max-age and
\* private.
cache_control(r) ==
    IF r.status \in {0, 404} THEN {}
    ELSE (IF r.nostore THEN {"no-store"} ELSE {}) \cup {"max-age=604800", "private"}

\* ------------------------------------------------------- cache maintenance

\* A permission or elevated-access entry reaches its TTL.
ExpirePermission(k) ==
    /\ k \in DOMAIN permCache
    /\ permCache' = [x \in DOMAIN permCache \ {k} |-> permCache[x]]
    /\ UNCHANGED <<roles, media, encodings, subtitles, pathCache, reverseIndex,
                   versions, resp, issued, inflight>>

\* A forward path-cache entry reaches its TTL.
ExpirePath(p) ==
    /\ p \in DOMAIN pathCache
    /\ pathCache' = [k \in DOMAIN pathCache \ {p} |-> pathCache[k]]
    /\ UNCHANGED <<roles, media, encodings, subtitles, reverseIndex, permCache,
                   versions, resp, issued, inflight>>

\* A reverse mapping reaches its TTL.
ExpireReverse(m) ==
    /\ reverseIndex[m] # {}
    /\ reverseIndex' = [reverseIndex EXCEPT ![m] = {}]
    /\ UNCHANGED <<roles, media, encodings, subtitles, pathCache, permCache,
                   versions, resp, issued, inflight>>

\* invalidate_media_path_cache(media_id)
invalidate_media_path_cache(m) ==
    /\ pathCache' = [k \in DOMAIN pathCache \ reverseIndex[m] |-> pathCache[k]]
    /\ reverseIndex' = [reverseIndex EXCEPT ![m] = {}]
    /\ UNCHANGED <<roles, media, encodings, subtitles, permCache, versions, resp, issued, inflight>>

\* The counters whose value a query-cache key embeds.
counters_of(key) ==
    CASE key.kind = "media_detail" -> { <<"media", key.token>> }
      [] key.kind = "playlist_detail" -> { <<"playlist", key.token>> }
      [] key.kind \in {"media_list", "media_search"} -> { <<"media_list", "all">> }
      [] key.kind = "related_media" -> { <<"media", key.token>>, <<"media_list", "all">> }

\* A bump of counter k puts the keys handed out with its value behind it.
bump_issued(is, k) ==
    LET old == { key \in is.since : k \in counters_of(key) }
    IN  [before |-> is.before \cup old, since |-> is.since \ old]

issued_for_media(is, m) ==
    bump_issued(bump_issued(is, <<"media", TokenOf(m)>>), <<"media_list", "all">>)

\* The counters after invalidate_media_cache(friendly_token).
bumped_for_media(vs, m) ==
    bump_cache_version(bump_cache_version(vs, "media", TokenOf(m)), "media_list", "all")

CanBump(m) ==
    /\ versions[<<"media", TokenOf(m)>>] < MaxVersion
    /\ versions[<<"media_list", "all">>] < MaxVersion

\* invalidate_media_cache(friendly_token), called on its own.
invalidate_media_cache(m) ==
    /\ CanBump(m)
    /\ versions' = bumped_for_media(versions, m)
    /\ issued' = issued_for_media(issued, m)
    /\ UNCHANGED <<roles, media, encodings, subtitles, pathCache, reverseIndex,
                   permCache, resp, inflight>>

\* ------------------------------------------- the metadata store's own writes

\* A write of the metadata store to a Media row, followed in the same step by
\* the invalidation signal for that Media.
ChangeState(m, s) ==
    /\ media[m].exists /\ media[m].state # s
    /\ CanBump(m)
    /\ media' = [media EXCEPT ![m].state = s]
    /\ versions' = bumped_for_media(versions, m)
    /\ issued' = issued_for_media(issued, m)
    /\ UNCHANGED <<roles, encodings, subtitles, pathCache, reverseIndex, permCache, resp, inflight>>

ChangePassword(m, p) ==
    /\ media[m].exists /\ media[m].password # p
    /\ CanBump(m)
    /\ media' = [media EXCEPT ![m].password = p]
    /\ versions' = bumped_for_media(versions, m)
    /\ issued' = issued_for_media(issued, m)
    /\ UNCHANGED <<roles, encodings, subtitles, pathCache, reverseIndex, permCache, resp, inflight>>

ChangeOwner(m, u) ==
    /\ media[m].exists /\ media[m].user # u
    /\ CanBump(m)
    /\ media' = [media EXCEPT ![m].user = u]
    /\ versions' = bumped_for_media(versions, m)
    /\ issued' = issued_for_media(issued, m)
    /\ UNCHANGED <<roles, encodings, subtitles, pathCache, reverseIndex, permCache, resp, inflight>>

\* The store replaces the thumbnail of a Media.
SetThumbnail(m, p) ==
    /\ media[m].exists /\ media[m].thumbnail # p
    /\ media' = [media EXCEPT ![m].thumbnail = p]
    /\ UNCHANGED <<roles, encodings, subtitles, pathCache, reverseIndex, permCache,
                   versions, resp, issued, inflight>>

\* The store deletes a Media, and with it its Encodings and Subtitles.
DeleteMedia(m) ==
    /\ media[m].exists
    /\ media' = [media EXCEPT ![m].exists = FALSE]
    /\ encodings' = [e \in EncodingIds |->
                        IF encodings[e].media = m
                        THEN [encodings[e] EXCEPT !.exists = FALSE] ELSE encodings[e]]
    /\ subtitles' = [t \in SubtitleIds |->
                        IF subtitles[t].media = m
                        THEN [subtitles[t] EXCEPT !.exists = FALSE] ELSE subtitles[t]]
    /\ UNCHANGED <<roles, pathCache, reverseIndex, permCache, versions, resp, issued, inflight>>

\* ------------------------------------------------------------ initial states

OrigA == "original/user/alice/a.mp4"
AudioA == "original/user/alice/a.mp3"
OrigB == "original/user/bob/b.mp4"
ThumbP == "original/thumbnails/user/alice/thumb.jpg"
ThumbVT == "original/thumbnails/user/alice/video_thumb.jpg"
PosterA == "original/thumbnails/user/alice/poster.jpg"
SubA == "original/subtitles/user/alice/subs.vtt"
EncA == "encoded/22/alice/a.mp4"
GifA == "encoded/5/alice/a.gif"

MediaA(owner, state, password) ==
    [exists |-> TRUE, user |-> owner, state |-> state, password |-> password,
     media_file |-> OrigA, filename |-> "a.mp4",
     thumbnail |-> ThumbP, poster |-> PosterA, uploaded_thumbnail |-> "",
     uploaded_poster |-> "", sprites |-> ""]

MediaB ==
    [exists |-> TRUE, user |-> "bob", state |-> "public", password |-> "",
     media_file |-> OrigB, filename |-> "b.mp4",
     thumbnail |-> ThumbVT, poster |-> "", uploaded_thumbnail |-> "",
     uploaded_poster |-> "", sprites |-> ""]

Encodings0 ==
    [e \in EncodingIds |->
        IF e = 1
        THEN [exists |-> TRUE, media |-> 1, profile_id |-> "22", media_file |-> EncA,
              filename |-> "a.mp4"]
        ELSE [exists |-> TRUE, media |-> 1, profile_id |-> "5", media_file |-> GifA,
              filename |-> "a.gif"]]

Subtitles0 ==
    [s \in SubtitleIds |-> [exists |-> TRUE, media |-> 1, subtitle_file |-> SubA]]

RoleSets == { {}, {"is_superuser"}, {"is_manager"}, {"is_editor"}, {"is_curator"} }

VersionKeys ==
    { <<"media", TokenOf(m)>> : m \in MediaIds }
        \cup { <<"media_list", "all">>, <<"playlist", "pl-1">> }

EmptyCaches ==
    /\ pathCache = <<>>
    /\ reverseIndex = [m \in MediaIds |-> {}]
    /\ permCache = <<>>
    /\ versions = [k \in VersionKeys |-> 0]
    /\ resp = NoResp
    /\ issued = [before |-> {}, since |-> {}]
    /\ inflight = <<>>

\* A visibility state and a password of Media A.  The password field is
\* kept by every state; the restricted state is taken with every password.
Protections ==
    { <<"public", "">>, <<"public", "p1">>, <<"unlisted", "">>, <<"private", "">>,
      <<"private", "p1">>, <<"restricted", "">>, <<"restricted", "p1">>,
      <<"restricted", "p2">> }

\* alice owns Media A; carol holds any one role or none; the caches are empty.
InitFixed ==
    /\ \E rs \in RoleSets : roles = [u \in Users |-> IF u = "carol" THEN rs ELSE {}]
    /\ \E pr \in Protections :
           media = [m \in MediaIds |-> IF m = 1 THEN MediaA("alice", pr[1], pr[2])
                                       ELSE MediaB]
    /\ encodings = Encodings0
    /\ subtitles = Subtitles0
    /\ EmptyCaches

Callers == {Anonymous, "alice", "carol"}
SessionMarkers == {"", "sha(p1)"}
QueryPasswords == {"", "p1"}
AuthPaths == {OrigA}

RequestAuth ==
    \E u \in Callers, p \in AuthPaths, sm \in SessionMarkers, q \in QueryPasswords :
        HandleRequest(u, Atoms(p), sm, q)

ExpireAny ==
    \/ \E k \in DOMAIN permCache : ExpirePermission(k)
    \/ \E p \in DOMAIN pathCache : ExpirePath(p)

NextFixed ==
    \/ RequestAuth
    \/ ExpireAny

SpecFixed == InitFixed /\ [][NextFixed]_vars

\* ------------------------------------------------- claims on authorization

\* The caller of the last request is logged in and is the owner of Media A or
\* carries one of the given role flags.
OwnerOrFlag(flags) ==
    /\ resp.user # Anonymous
    /\ \/ resp.user = media[1].user
       \/ roles[resp.user] \cap flags # {}

\* The last request was for Media A and reached the permission check.
Decided == resp.media = 1 /\ resp.status \in {200, 403}

C3_FreshRestricted ==
    (Decided /\ media[1].state = "restricted" /\ ~resp.permHit /\ ~resp.elevHit)
        => /\ media[1].password # ""
               => (resp.status = 200
                     <=> \/ OwnerOrFlag({"is_superuser", "is_editor", "is_manager",
                                         "is_curator"})
                         \/ resp.session = sha256(media[1].password)
                         \/ (resp.query # ""
                              /\ sha256(resp.query) = sha256(media[1].password)))
           /\ (OwnerOrFlag({"is_superuser", "is_editor", "is_manager", "is_curator"})
                 /\ resp.session = "" /\ resp.query = "")
               => resp.status = 200 /\ resp.served = Str(resp.path)
           /\ resp.status = 403 => resp.served = NoPath

\* An anonymous caller with the correct query password and no session marker
\* was delivered the restricted Asset by a fresh decision.
C3_Witness ==
    /\ Decided /\ media[1].state = "restricted" /\ media[1].password = "p1"
    /\ ~resp.permHit /\ ~resp.elevHit
    /\ resp.user = Anonymous /\ resp.session = "" /\ resp.query = "p1"
    /\ resp.status = 200 /\ resp.served = OrigA

\* C4: for a public or unlisted Asset every caller is allowed on a resolvable
\* path, and the decision reads no permission cache entry and writes none.
C4_OpenStates ==
    media[1].state \in {"public", "unlisted"}
        => /\ DOMAIN permCache = {}
           /\ Decided => /\ resp.status = 200 /\ resp.served = Str(resp.path)
                          /\ resp.permKey = <<>> /\ ~resp.permHit /\ ~resp.elevHit

\* An anonymous caller who supplies no password was delivered an unlisted Asset.
C4_Witness ==
    /\ Decided /\ media[1].state = "unlisted"
    /\ resp.user = Anonymous /\ resp.query = "" /\ resp.session = ""
    /\ resp.status = 200 /\ resp.via = "fresh"

\* --------------------------------------------- password attempts in sequence

\* Media A is restricted with a password; carol is an editor or holds no role.
InitAttempts ==
    /\ \E rs \in { {}, {"is_editor"} } :
           roles = [u \in Users |-> IF u = "carol" THEN rs ELSE {}]
    /\ \E pw \in {"p1", "p2"} :
           media = [m \in MediaIds |-> IF m = 1 THEN MediaA("alice", "restricted", pw)
                                       ELSE MediaB]
    /\ encodings = Encodings0
    /\ subtitles = Subtitles0
    /\ EmptyCaches

\* A session marker is the hash of a password entered earlier, and outlives a
\* change of the Asset's password.
RequestAttempt ==
    \E u \in {Anonymous, "carol"}, sm \in {"", "sha(p1)"}, q \in {"", "p1", "p2"} :
        HandleRequest(u, Atoms(OrigA), sm, q)

NextAttempts ==
    \/ RequestAttempt
    \/ ExpireAny

SpecAttempts == InitAttempts /\ [][NextAttempts]_vars

\* C2: for a restricted Asset with a password, a caller without elevated
\* access whose query password does not hash to the stored password's hash
\* and whose session marker differs from that hash is denied, whatever
\* requests came before and whatever the permission cache holds.
C2_WrongAttemptDenied ==
    (/\ Decided /\ media[1].state = "restricted" /\ media[1].password # ""
     /\ ~OwnerOrFlag({"is_superuser", "is_editor", "is_manager", "is_curator"})
     /\ (resp.query = "" \/ sha256(resp.query) # sha256(media[1].password))
     /\ resp.session # sha256(media[1].password))
        => resp.status = 403

\* ------------------------------------------------- changes of the Asset

\* carol owns Media A, private with a password; nobody holds a role.
Init ==
    /\ roles = [u \in Users |-> {}]
    /\ media = [m \in MediaIds |-> IF m = 1 THEN MediaA("carol", "private", "p1")
                                    ELSE MediaB]
    /\ encodings = Encodings0
    /\ subtitles = Subtitles0
    /\ EmptyCaches

Request ==
    \E u \in {Anonymous, "carol"}, sm \in {"", "sha(p1)"} :
        HandleRequest(u, Atoms(OrigA), sm, "")

Change ==
    \/ \E s \in {"private", "restricted"} : ChangeState(1, s)
    \/ \E p \in {"p1", "p2"} : ChangePassword(1, p)
    \/ \E u \in {"alice", "carol"} : ChangeOwner(1, u)

Next ==
    \/ Request
    \/ Change
    \/ invalidate_media_cache(1)
    \/ ExpireAny

Spec == Init /\ [][Next]_vars

\* What an authorization check for Media A would read and return now.
CheckNow(u, sm) == check_access_permission(u, sm, "", 1, permCache)

ElevatedKeyNow(u) == get_elevated_access_cache_key(u, UidOf(1))

\* carol no longer owns the private Media A and holds no role; the counters
\* were bumped with the change and not since the request, yet the request
\* was allowed from the entry cached while she was the owner.
StaleAllow ==
    /\ Decided /\ resp.user = "carol" /\ resp.permHit /\ resp.status = 200
    /\ media[1].state = "private" /\ media[1].user = "alice"
    /\ resp.ver = versions[<<"media", "tok-a">>] /\ resp.ver > 0

\* C5: once the version counters of a changed Asset are bumped, the next
\* authorization check returns no decision cached before the change: the key
\* it reads, for the decision and for the elevated-access answer, differs
\* from every key written before the bump.
C5_NoDecisionSurvivesBump ==
    [][/\ versions' # versions
           => \A u \in {Anonymous, "carol"}, sm \in {"", "sha(p1)"} :
                 /\ CheckNow(u, sm)'.key \notin DOMAIN permCache
                 /\ ElevatedKeyNow(u)' \notin DOMAIN permCache
       /\ ~StaleAllow']_vars

\* ------------------------------------------------ the files of one Asset

\* Media A is private or restricted with a password; its original is a
\* video or an audio file.
InitFiles ==
    /\ roles = [u \in Users |-> {}]
    /\ \E pr \in { <<"private", "">>, <<"restricted", "p1">> },
          orig \in { <<OrigA, "a.mp4">>, <<AudioA, "a.mp3">> } :
           media = [m \in MediaIds |->
                       IF m = 1
                       THEN [MediaA("alice", pr[1], pr[2])
                                EXCEPT !.media_file = orig[1], !.filename = orig[2]]
                       ELSE MediaB]
    /\ encodings = Encodings0
    /\ subtitles = Subtitles0
    /\ EmptyCaches

FilePaths == { OrigA, AudioA, ThumbP, PosterA, SubA, EncA }

\* An anonymous caller with no password, with a session marker left from an
\* earlier password, or with that marker and the password in the query.
FileAttempts == { <<"", "">>, <<"sha(p2)", "">>, <<"sha(p2)", "p1">> }

RequestFile ==
    \E p \in FilePaths, a \in FileAttempts : HandleRequest(Anonymous, Atoms(p), a[1], a[2])

NextFiles ==
    \/ RequestFile
    \/ \E k \in DOMAIN permCache : ExpirePermission(k)

SpecFiles == InitFiles /\ [][NextFiles]_vars

\* The paths the store records for Media m: its original, its thumbnail and
\* poster fields, its Encodings and its Subtitles.
StoredFiles(m) ==
    ({ media[m].media_file, media[m].thumbnail, media[m].poster,
       media[m].uploaded_thumbnail, media[m].uploaded_poster, media[m].sprites }
     \cup { encodings[e].media_file : e \in { x \in EncodingIds : encodings[x].media = m } }
     \cup { subtitles[t].subtitle_file : t \in { x \in SubtitleIds : subtitles[x].media = m } })
    \ {""}

\* The caller of the last request is authorized for Media A as it is now.
Authorized ==
    \/ media[1].state \in {"public", "unlisted"}
    \/ OwnerOrFlag({"is_superuser", "is_editor", "is_manager", "is_curator"})
    \/ /\ media[1].state = "restricted" /\ media[1].password # ""
       /\ \/ resp.session = sha256(media[1].password)
          \/ resp.query # "" /\ sha256(resp.query) = sha256(media[1].password)

\* C6: for a private or restricted Asset, no request by a caller who is not
\* authorized for it is answered with one of its stored files (original,
\* thumbnail, poster, subtitle, encoded rendition).
C6_NoDeliveryUnauthorized ==
    (/\ resp.status = 200 /\ resp.served \in StoredFiles(1)
     /\ media[1].state \in {"private", "restricted"})
        => Authorized

\* ------------------------------------------------------- classification

\* Media A is private; the caches are empty.
InitClassify ==
    /\ roles = [u \in Users |-> {}]
    /\ media = [m \in MediaIds |-> IF m = 1 THEN MediaA("alice", "private", "") ELSE MediaB]
    /\ encodings = Encodings0
    /\ subtitles = Subtitles0
    /\ EmptyCaches

\* Directories, file names and extensions of the requested paths.
ClassifyDirs ==
    { ThumbPrefix \o <<"alice", "/">>, SubtitlePrefix \o <<"alice", "/">>,
      EncodedPrefix \o <<"5", "/", "alice", "/">>, OriginalPrefix \o <<"alice", "/">>,
      <<"userlogos", "/">>, <<"original", "/", "categories", "/">> }

ClassifyNames == { <<"a">>, <<"thumb">>, <<"userlogos", "/", "thumb">> }

ClassifyExts == { ".jpg", ".gif", ".GIF", ".mp4", ".vtt" }

ClassifyPaths ==
    { d \o n \o <<e>> : d \in ClassifyDirs, n \in ClassifyNames, e \in ClassifyExts }

RequestClassify == \E p \in ClassifyPaths : HandleRequest(Anonymous, p, "", "")

NextClassify == RequestClassify

SpecClassify == InitClassify /\ [][NextClassify]_vars

\* The requested path lies under original/thumbnails/user/ or
\* original/subtitles/user/, or lies under encoded/ and ends in .gif in any
\* letter case.
MediaAssociatedPath(path) ==
    \/ StartsWith(path, <<"original", "/", "thumbnails", "/", "user", "/">>)
    \/ StartsWith(path, <<"original", "/", "subtitles", "/", "user", "/">>)
    \/ /\ StartsWith(path, <<"encoded", "/">>)
       /\ path[Len(path)] \in {".gif", ".GIF"}

\* C7: a path under original/thumbnails/user/ or original/subtitles/user/, or
\* an encoded/ path ending in .gif in any letter case, is classified neither
\* public nor generically non-video; a request for it is delivered only
\* after resolution found an Asset and the authorization check allowed it.
C7_MediaAssociatedNeverBypassed ==
    /\ \A p \in ClassifyPaths :
          MediaAssociatedPath(p) => ~is_public_media_file(p) /\ ~is_non_video_file(p)
    /\ (resp.status # 0 /\ MediaAssociatedPath(resp.path))
          => /\ resp.via \notin {"public", "non_video"}
             /\ resp.status = 200 => resp.media # NoMedia /\ Authorized

\* A request for the preview GIF of the private Media A, written with an
\* upper-case extension, went to resolution and was not delivered.
C7_Witness ==
    /\ resp.path = EncodedPrefix \o <<"5", "/", "alice", "/", "a", ".GIF">>
    /\ resp.via = "fresh" /\ resp.status \in {403, 404}

\* ------------------------------------------------- colliding thumbnails

\* Media A records the thumbnail thumb.jpg and Media B video_thumb.jpg, both
\* in alice's directory; A belongs to alice or was transferred to bob.
InitThumb ==
    /\ roles = [u \in Users |-> {}]
    /\ \E o \in {"alice", "bob"} :
           media = [m \in MediaIds |->
                       IF m = 1 THEN [MediaA(o, "public", "") EXCEPT !.poster = ""]
                       ELSE MediaB]
    /\ encodings = Encodings0
    /\ subtitles = Subtitles0
    /\ EmptyCaches

ThumbRequests == { Atoms(ThumbP), Atoms(ThumbVT) }

RequestThumb == \E p \in ThumbRequests : HandleRequest(Anonymous, p, "", "")

ChangeThumb ==
    \/ \E m \in MediaIds, p \in {ThumbP, ThumbVT} : SetThumbnail(m, p)
    \/ DeleteMedia(1)

ExpireThumb ==
    \/ \E p \in DOMAIN pathCache : ExpirePath(p)
    \/ \E m \in MediaIds : ExpireReverse(m)

NextThumb ==
    \/ RequestThumb
    \/ ChangeThumb
    \/ ExpireThumb
    \/ \E m \in MediaIds : invalidate_media_path_cache(m)

SpecThumb == InitThumb /\ [][NextThumb]_vars

\* Media m exists and records path p in its thumbnail field.
RecordsThumb(m, p) == media[m].exists /\ media[m].thumbnail = p

\* C8: while Media A records thumb.jpg and Media B records video_thumb.jpg,
\* whose tail is thumb.jpg, a request for thumb.jpg resolves to A and never to
\* B, whatever the path cache holds; while only B exists, recording
\* video_thumb.jpg, the request resolves to no Media and is answered 404.
C8_CollisionResolvesToOwner ==
    [][HandleRequest(Anonymous, Atoms(ThumbP), "", "")
         => /\ (RecordsThumb(1, ThumbP) /\ RecordsThumb(2, ThumbVT))
                 => resp'.media = 1 /\ resp'.status = 200
            /\ (~media[1].exists /\ RecordsThumb(2, ThumbVT))
                 => resp'.media = NoMedia /\ resp'.status = 404]_vars

\* The path cache mapped thumb.jpg to Media B, which no longer records it;
\* the entry was evicted and the request resolved to Media A.
C8_Witness ==
    /\ resp.path = Atoms(ThumbP) /\ resp.via = "evicted" /\ resp.media = 1
    /\ RecordsThumb(1, ThumbP) /\ RecordsThumb(2, ThumbVT)

\* ------------------------------------------------ suffix matches of a path

\* Media A of alice stores its original under a prefixed name, x1.a.mp4; its
\* filename field is filled or, for a row older than the field, empty.
InitPath ==
    /\ roles = [u \in Users |-> {}]
    /\ \E fn \in {"x1.a.mp4", ""} :
           media = [m \in MediaIds |->
                       IF m = 1
                       THEN [MediaA("alice", "public", "")
                                EXCEPT !.media_file = "original/user/alice/x1.a.mp4",
                                       !.filename = fn]
                       ELSE MediaB]
    /\ encodings = Encodings0
    /\ subtitles = Subtitles0
    /\ EmptyCaches

PathRequests ==
    { Atoms("original/user/alice/x1.a.mp4"), Atoms(OrigA),
      Atoms(ThumbP), ThumbPrefix \o <<"bob", "/", "thumb", ".jpg">>,
      Atoms(ThumbP) \o <<"/", "x", ".jpg">>,
      Atoms(GifA), EncodedPrefix \o <<"x", "/", "alice", "/", "a", ".gif">>,
      Atoms(SubA), SubtitlePrefix \o <<"alice", "/", "x", "subs", ".vtt">> }

RequestPath == \E p \in PathRequests : HandleRequest(Anonymous, p, "", "")

NextPath ==
    \/ RequestPath
    \/ \E m \in MediaIds : invalidate_media_path_cache(m)

SpecPath == InitPath /\ [][NextPath]_vars

\* The last component of a path: the file name the lookups match on.
LastPart(path) == LET parts == Split(path) IN parts[Len(parts)]

\* The Media that record exactly the path, and those of which a recorded
\* path ends with the path's file name.
ExactOwners(path) ==
    { m \in MediaIds : media[m].exists /\ Str(path) \in StoredFiles(m) }

SuffixCandidates(path) ==
    { m \in MediaIds : /\ media[m].exists
                       /\ \E f \in StoredFiles(m) : EndsWith(Atoms(f), LastPart(path)) }

\* C9: when the suffix match for a requested path has candidates and none of
\* them records exactly that path, resolution reports no Media (404), and
\* the path cache gets no entry for the path.
C9_SuffixOnlyFailsClosed ==
    \A p \in PathRequests :
        (SuffixCandidates(p) # {} /\ ExactOwners(p) = {})
            => /\ Str(p) \notin DOMAIN pathCache
               /\ (resp.path = p /\ resp.status # 0)
                     => resp.status = 404 /\ resp.media = NoMedia

\* C10: when resolution returns a Media for a path of the thumbnail,
\* preview-GIF or subtitle class, by cache hit or by fresh lookup, the
\* requested path equals one of the thumbnail, poster or sprite fields of
\* that Media or the stored path of one of its Encodings or Subtitles.
C10_ResolvedOwnsExactPath ==
    (resp.media # NoMedia /\ MediaAssociatedPath(resp.path))
        => Str(resp.path) \in StoredFiles(resp.media) \ {media[resp.media].media_file}

\* ------------------------------------------- the same path requested twice

OrigBobA == "original/user/bob/a.mp4"
EncBobA == "encoded/22/bob/a.mp4"

\* Media A was uploaded by alice.  It still belongs to her, or it was
\* transferred to bob, its files left in alice's directory or moved to bob's.
InitTwice ==
    /\ roles = [u \in Users |-> {}]
    /\ \E st \in {"public", "private"},
          own \in { <<"alice", OrigA, EncA>>, <<"bob", OrigA, EncA>>,
                    <<"bob", OrigBobA, EncBobA>> } :
           /\ media = [m \in MediaIds |->
                          IF m = 1
                          THEN [MediaA(own[1], st, "") EXCEPT !.media_file = own[2]]
                          ELSE MediaB]
           /\ encodings = [Encodings0 EXCEPT ![1].media_file = own[3]]
    /\ subtitles = Subtitles0
    /\ EmptyCaches

TwiceCallers == {Anonymous, "bob"}

TwicePaths ==
    { Atoms(OrigA), Atoms(OrigBobA), Atoms(EncA), Atoms(EncBobA), Atoms(ThumbP),
      OriginalPrefix \o <<"alice", "/", "zzz", ".mp4">> }

RequestTwice == \E u \in TwiceCallers, p \in TwicePaths : HandleRequest(u, p, "", "")

NextTwice == RequestTwice

SpecTwice == InitTwice /\ [][NextTwice]_vars

\* C11: when a path is requested again right after a request for it, the
\* metadata store not having been written in between, the second resolution
\* yields the same Media and the same override path (or none both times) as
\* the first, and a path that resolved to a Media is answered from the
\* forward path cache the second time.
C11_ResolveTwiceSame ==
    [][\A u \in TwiceCallers, p \in TwicePaths :
          (HandleRequest(u, p, "", "") /\ resp.status # 0 /\ resp.raw = p)
              => /\ resp'.media = resp.media
                 /\ resp'.override = resp.override
                 /\ resp.media # NoMedia => resp'.via = "cache"]_vars

\* The file name and the owner segment of an original/user/ or encoded/ path.
OwnerSegment(path) == Split(path)[3]

\* The stored paths the owner-agnostic match can return for a path: no
\* Media (Encoding) of the path's owner matches the file name, by its
\* filename field or by the tail of its stored path, and a Media (Encoding)
\* of another owner carries the file name.
TransferTargets(path) ==
    LET fn == LastPart(path)
        own == OwnerSegment(path)
    IN  IF StartsWith(path, OriginalPrefix)
        THEN IF \E m \in MediaIds :
                    /\ media[m].exists /\ <<media[m].user>> = own
                    /\ (NameOf(m) = fn \/ EndsWith(FileOf(m), fn))
             THEN {}
             ELSE { media[m].media_file :
                      m \in { x \in MediaIds : media[x].exists /\ NameOf(x) = fn } }
        ELSE IF StartsWith(path, EncodedPrefix)
        THEN IF \E e \in EncodingIds :
                    /\ encodings[e].exists /\ <<media[encodings[e].media].user>> = own
                    /\ <<encodings[e].profile_id>> = Split(path)[2]
                    /\ (EncNameOf(e) = fn \/ EndsWith(EncFileOf(e), fn))
             THEN {}
             ELSE { encodings[e].media_file :
                      e \in { x \in EncodingIds :
                                 /\ encodings[x].exists /\ EncNameOf(x) = fn
                                 /\ <<encodings[x].profile_id>> = Split(path)[2] } }
        ELSE {}

\* C15: when a fresh resolution of an original/user/ or encoded/ path
\* succeeds only through the owner-agnostic file-name match, it returns the
\* stored path of the matched row as the override, and an allowed request is
\* delivered that override instead of the requested path; when resolution
\* supplies no override, an allowed request is delivered the requested path.
C15_OverrideDelivered ==
    [][\A u \in TwiceCallers, p \in TwicePaths :
          HandleRequest(u, p, "", "")
              => /\ (get_cached_media_id(p) = NoMedia /\ TransferTargets(p) # {})
                       => /\ resp'.override \in TransferTargets(p)
                          /\ resp'.media # NoMedia
                          /\ resp'.status = 200 => resp'.served = resp'.override
                 /\ (resp'.override = NoPath /\ resp'.status = 200)
                       => resp'.served = Str(p)]_vars

\* bob, the new owner of Media A, asked for the original under alice's
\* directory and was delivered the file stored under his own.
C15_Witness ==
    /\ resp.path = Atoms(OrigA) /\ resp.user = "bob" /\ resp.via = "fresh"
    /\ media[1].user = "bob" /\ media[1].media_file = OrigBobA
    /\ resp.override = OrigBobA /\ resp.status = 200 /\ resp.served = OrigBobA

\* ------------------------------------------------ the gate of a request

\* Media A of alice is private, or restricted with a password.
InitGate ==
    /\ roles = [u \in Users |-> {}]
    /\ \E pr \in { <<"private", "">>, <<"restricted", "p1">> } :
           media = [m \in MediaIds |-> IF m = 1 THEN MediaA("alice", pr[1], pr[2])
                                       ELSE MediaB]
    /\ encodings = Encodings0
    /\ subtitles = Subtitles0
    /\ EmptyCaches

GateCallers == {Anonymous, "alice"}

\* Paths that name a file of Media A, and paths that name no Media.
StoredPaths == { Atoms(OrigA), Atoms(ThumbP) }

MissingPaths ==
    { OriginalPrefix \o <<"alice", "/", "zzz", ".mp4">>,
      ThumbPrefix \o <<"alice", "/", "zzz", ".jpg">>,
      HlsPrefix \o <<"abc", "/", "x", ".m3u8">> }

\* Raw paths whose decoded form is malformed: traversal, written out or
\* percent-encoded, a backslash, a NUL or another control byte, a leading
\* slash, and a directory outside the served ones.
MalformedPaths ==
    { OriginalPrefix \o <<"alice", "/", "..", "/", "bob", "/", "b", ".mp4">>,
      OriginalPrefix \o <<"alice", "/", "%2E%2E", "/", "bob", "/", "b", ".mp4">>,
      <<"userlogos", "/", "..", "/">> \o Atoms(OrigA),
      OriginalPrefix \o <<"alice", "\\", "a", ".mp4">>,
      OriginalPrefix \o <<"alice", "/", "a", "%00", ".mp4">>,
      OriginalPrefix \o <<"alice", "/", "a", "CTL", ".mp4">>,
      <<"/">> \o Atoms(OrigA),
      <<"%2F">> \o Atoms(OrigA),
      <<"etc", "/", "passwd">> }

\* One path in each public directory, and paths that come close to one.
PublicDirPaths ==
    { PUBLIC_MEDIA_PATHS[i] \o <<"x", ".jpg">> : i \in 1..Len(PUBLIC_MEDIA_PATHS) }
    \cup { <<"original", "/", "userlogos", "/", "alice", "/", "x", ".jpg">>,
           <<"original", "/", "logos", "/", "x", ".jpg">>,
           <<"original", "/", "thumbnails", "/", "x", ".jpg">>,
           <<"hls", "/", "userlogos", "/", "x", ".jpg">> }

GatePaths == StoredPaths \cup MissingPaths \cup MalformedPaths \cup PublicDirPaths

RequestGate ==
    \E u \in GateCallers, p \in GatePaths, q \in {"", "p1"} : HandleRequest(u, p, "", q)

NextGate ==
    \/ RequestGate
    \/ \E k \in DOMAIN permCache : ExpirePermission(k)

SpecGate == InitGate /\ [][NextGate]_vars

\* The decoded path contains '..', a backslash, a NUL or another control
\* byte, or starts with '/'.
BadSyntax(path) ==
    \/ \E i \in 1..Len(path) : path[i] \in {"..", "\\", "NUL", "CTL"}
    \/ (Len(path) > 0 /\ path[1] = "/")

\* C12: a request whose URL-decoded path contains '..', a backslash, a NUL
\* or another control byte, or starts with '/', is answered 404 without a
\* delivery, without resolving a Media, and leaves the path cache, the
\* reverse index, the permission cache and the metadata store as they were.
\* (Only a request writes resp, and resp.path is the decoded path.)
C12_MalformedRejectedFirst ==
    [][(resp' # resp /\ BadSyntax(resp'.path))
          => /\ resp'.status = 404 /\ resp'.via = "invalid"
             /\ resp'.served = NoPath /\ resp'.media = NoMedia
             /\ resp'.permKey = <<>>
             /\ UNCHANGED <<pathCache, reverseIndex, permCache, media, encodings,
                            subtitles, versions>>]_vars

\* A percent-encoded traversal was answered 404 while the path cache and the
\* permission cache held entries.
C12_Witness ==
    /\ \E i \in 1..Len(resp.raw) : resp.raw[i] = "%2E%2E"
    /\ resp.status = 404 /\ resp.via = "invalid"
    /\ DOMAIN pathCache # {} /\ DOMAIN permCache # {}

\* C13: a well-formed request that takes no bypass is answered 404 exactly
\* when its path resolves to no Media, which is the case whenever no Media
\* records a path with that file name; when it resolves to Media A and a
\* fresh decision finds the caller not authorized it is answered 403; every
\* 403 carries the Cache-Control directive no-store; and a 403 or 404 never
\* comes with a delivery.
C13_NotFoundAndForbidden ==
    /\ (resp.status # 0 /\ resp.via \notin {"invalid", "public", "non_video"})
          => /\ resp.status = 404 <=> resp.media = NoMedia
             /\ SuffixCandidates(resp.path) = {} => resp.status = 404
             /\ (resp.media = 1 /\ ~resp.permHit /\ ~resp.elevHit /\ ~Authorized)
                   => resp.status = 403
    /\ resp.status = 403
          => "no-store" \in cache_control(resp) /\ resp.media # NoMedia
    /\ resp.status \in {403, 404} => resp.served = NoPath
    /\ resp.served # NoPath => resp.status = 200

\* An anonymous caller without a password was refused the original of the
\* private Media A by a fresh decision.
C13_Witness ==
    /\ resp.path = Atoms(OrigA) /\ resp.user = Anonymous /\ resp.query = ""
    /\ media[1].state = "private" /\ ~resp.permHit
    /\ resp.status = 403 /\ "no-store" \in cache_control(resp) /\ resp.served = NoPath

\* C14: when a caller who is not authorized for the private Media A has
\* been refused one of its paths and then asks for a path that names no
\* Media, the second response has the same status and the same Cache-Control
\* directives as the first.
C14_DenialsAlike ==
    [][\A u \in GateCallers, p \in MissingPaths :
          (/\ HandleRequest(u, p, "", "")
           /\ resp.user = u /\ resp.media = 1 /\ resp.status # 200
           /\ media[1].state = "private" /\ ~Authorized)
              => /\ resp'.status = resp.status
                 /\ cache_control(resp)' = cache_control(resp)]_vars

\* The nine directory prefixes of public files.
PublicPrefixes ==
    { <<"userlogos", "/">>, <<"logos", "/">>, <<"favicons", "/">>,
      <<"social-media-icons", "/">>, <<"tinymce_media", "/">>, <<"homepage-popups", "/">>,
      <<"original", "/", "categories", "/">>, <<"original", "/", "topics", "/">>,
      <<"original", "/", "userlogos", "/">> }

HasPublicPrefix(path) == \E q \in PublicPrefixes : StartsWith(path, q)

\* C20: a path is classified public exactly when it starts with one of the
\* nine public prefixes, and no path under original/thumbnails/user/ is; a
\* well-formed request takes the public route exactly for such a path, and is
\* then delivered the requested path with no Media resolved and no
\* permission decision read or written.
C20_PublicIffPrefix ==
    /\ \A p \in GatePaths :
          /\ is_public_media_file(unquote(p)) <=> HasPublicPrefix(unquote(p))
          /\ StartsWith(unquote(p), ThumbPrefix) => ~is_public_media_file(unquote(p))
    /\ (resp.status # 0 /\ resp.via # "invalid")
          => (resp.via = "public" <=> HasPublicPrefix(resp.path))
    /\ resp.via = "public"
          => /\ resp.status = 200 /\ resp.served = Str(resp.path)
             /\ resp.media = NoMedia /\ resp.permKey = <<>>

\* An anonymous caller was delivered a user logo under original/userlogos/
\* by the public route while Media A was private.
C20_Witness ==
    /\ StartsWith(resp.path, <<"original", "/", "userlogos", "/">>)
    /\ resp.user = Anonymous /\ resp.via = "public" /\ resp.status = 200
    /\ media[1].state = "private"

\* ------------------------------------------------- a failing cache backend

\* The cache calls of a request that can raise: the read of the forward path
\* entry, the delete of a stale one, the write of the forward entry, the
\* write of the reverse mapping, and the reads and writes of the permission
\* and elevated-access entries.
CacheSites == {"path_get", "path_delete", "path_set", "path_sadd", "perm_get", "perm_set"}

\* _get_media_from_path_cached when the calls in faults raise.  The read is
\* wrapped by get_cached_media_id and counts as a miss; the writes are wrapped
\* by set_cached_media_id, which gives up at the call that raised; the delete
\* of a stale entry is not wrapped, so its exception leaves the method.
get_media_from_path_cached_faulty(file_path, faults) ==
    LET cached_media_id == IF "path_get" \in faults THEN NoMedia
                           ELSE get_cached_media_id(file_path)
        hit == cached_media_id # NoMedia
        alive == hit /\ Exists(cached_media_id)
        trusted == alive /\ (NeedsVerify(file_path)
                               => verify_media_owns_thumbnail_path(cached_media_id, file_path))
        evict == alive /\ ~trusted
        pc0 == IF evict
               THEN [k \in DOMAIN pathCache \ {get_media_path_cache_key(file_path)}
                        |-> pathCache[k]]
               ELSE pathCache
        via == IF ~hit THEN "fresh" ELSE IF ~alive THEN "stale" ELSE "evicted"
    IN  IF trusted
        THEN { [res |-> Found(cached_media_id), pc |-> pathCache, ri |-> reverseIndex,
                via |-> "cache", raised |-> FALSE] }
        ELSE IF evict /\ "path_delete" \in faults
        THEN { [res |-> NotFound, pc |-> pathCache, ri |-> reverseIndex,
                via |-> "error", raised |-> TRUE] }
        ELSE { [res |-> r,
                pc |-> IF r.media # NoMedia /\ "path_set" \notin faults
                       THEN set_cached_forward(pc0, file_path, r.media)
                       ELSE pc0,
                ri |-> IF r.media # NoMedia /\ faults \cap {"path_set", "path_sadd"} = {}
                       THEN set_cached_reverse(reverseIndex, file_path, r.media)
                       ELSE reverseIndex,
                via |-> via, raised |-> FALSE] : r \in get_media_from_path(file_path) }

\* The permission cache after a check that read readCache and left result:
\* the entries the check wrote are stored unless the writes raise.
perm_cache_after(readCache, result, faults) ==
    IF "perm_set" \in faults THEN permCache
    ELSE [k \in DOMAIN permCache \cup (DOMAIN result \ DOMAIN readCache) |->
             IF k \in DOMAIN result \ DOMAIN readCache THEN result[k] ELSE permCache[k]]

\* SecureMediaView._handle_request when the cache calls in faults raise.  An
\* exception that leaves the view is answered 500 by the framework.
HandleRequestFaulty(user, raw_path, session_password_hash, query_password, faults) ==
    LET file_path == unquote(raw_path)
        req == [NoResp EXCEPT !.raw = raw_path, !.path = file_path, !.user = user,
                              !.session = session_password_hash,
                              !.query = query_password, !.faults = faults]
    IN
    IF ~is_valid_file_path(file_path)
    THEN /\ resp' = [req EXCEPT !.status = 404, !.via = "invalid"]
         /\ UNCHANGED <<roles, media, encodings, subtitles, pathCache, reverseIndex,
                        permCache, versions, issued, inflight>>
    ELSE IF is_public_media_file(file_path)
    THEN /\ resp' = [req EXCEPT !.status = 200, !.via = "public", !.served = Str(file_path)]
         /\ UNCHANGED <<roles, media, encodings, subtitles, pathCache, reverseIndex,
                        permCache, versions, issued, inflight>>
    ELSE IF is_non_video_file(file_path)
    THEN /\ resp' = [req EXCEPT !.status = 200, !.via = "non_video", !.served = Str(file_path)]
         /\ UNCHANGED <<roles, media, encodings, subtitles, pathCache, reverseIndex,
                        permCache, versions, issued, inflight>>
    ELSE
    \E c \in get_media_from_path_cached_faulty(file_path, faults) :
        LET m == c.res.media
            readCache == IF "perm_get" \in faults THEN <<>> ELSE permCache
            chk == check_access_permission(user, session_password_hash, query_password,
                                           m, readCache)
            serving_path == IF c.res.actual # NoPath THEN c.res.actual ELSE Str(file_path)
            found == [req EXCEPT !.media = m, !.via = c.via, !.override = c.res.actual]
        IN  IF c.raised
            THEN /\ resp' = [req EXCEPT !.status = 500, !.via = "error"]
                 /\ UNCHANGED <<roles, media, encodings, subtitles, pathCache,
                                reverseIndex, permCache, versions, issued, inflight>>
            ELSE
            /\ pathCache' = c.pc
            /\ reverseIndex' = c.ri
            /\ media' = backfill_media(c.res, file_path)
            /\ encodings' = backfill_encoding(c.res, file_path)
            /\ UNCHANGED <<roles, subtitles, versions, issued, inflight>>
            /\ IF m = NoMedia
               THEN /\ resp' = [found EXCEPT !.status = 404]
                    /\ UNCHANGED permCache
               ELSE /\ permCache' = perm_cache_after(readCache, chk.cache, faults)
                    /\ Cardinality(DOMAIN permCache') <= MaxPermEntries
                    /\ resp' = [found EXCEPT
                                  !.status = IF chk.result THEN 200 ELSE 403,
                                  !.nostore = ~chk.result,
                                  !.served = IF chk.result THEN serving_path ELSE NoPath,
                                  !.permKey = chk.key, !.permHit = chk.hit,
                                  !.elevHit = chk.elevHit,
                                  !.ver = versions[<<"media", TokenOf(m)>>]]

\* Media A of alice is private and records the thumbnail thumb.jpg.
InitFaulty ==
    /\ roles = [u \in Users |-> {}]
    /\ media = [m \in MediaIds |-> IF m = 1 THEN MediaA("alice", "private", "") ELSE MediaB]
    /\ encodings = Encodings0
    /\ subtitles = Subtitles0
    /\ EmptyCaches

\* No call raises, one call raises, or every call raises.
FaultSets == {{}} \cup { {f} : f \in CacheSites } \cup {CacheSites}

RequestFaulty ==
    \E u \in {Anonymous, "alice"}, p \in {OrigA, ThumbP}, f \in FaultSets :
        HandleRequestFaulty(u, Atoms(p), "", "", f)

NextFaulty ==
    \/ RequestFaulty
    \/ \E p \in {ThumbP, ThumbVT} : SetThumbnail(1, p)
    \/ \E k \in DOMAIN permCache : ExpirePermission(k)

SpecFaulty == InitFaulty /\ [][NextFaulty]_vars

\* The status and the delivered path of a request that finds the caches
\* empty.
EmptyCacheOutcomes(user, file_path, session_password_hash, query_password) ==
    { LET m == r.media
          chk == check_access_permission(user, session_password_hash, query_password,
                                         m, <<>>)
      IN  IF m = NoMedia THEN <<404, NoPath>>
          ELSE IF chk.result
          THEN <<200, IF r.actual # NoPath THEN r.actual ELSE Str(file_path)>>
          ELSE <<403, NoPath>> : r \in get_media_from_path(file_path) }

\* C16: a request during which cache calls raise goes through resolution and
\* authorization as if the caches were empty: it gets the status and the
\* delivered path it would get with empty caches, and is never answered with
\* a server error.  (Only a request writes resp.)
C16_FailureIsMiss ==
    [][(resp' # resp /\ resp'.faults # {}
          /\ resp'.via \notin {"invalid", "public", "non_video"})
          => /\ resp'.status # 500
             /\ <<resp'.status, resp'.served>>
                    \in EmptyCacheOutcomes(resp'.user, resp'.path, resp'.session,
                                           resp'.query)]_vars

\* ------------------------------------------------ versioned query-cache keys

\* _get_cache_version: the value returned and the counters it leaves; an
\* absent counter is initialised to 1.
get_cache_version(vs, scope, identifier) ==
    IF vs[<<scope, identifier>>] = 0
    THEN [version |-> 1, vs |-> [vs EXCEPT ![<<scope, identifier>>] = 1]]
    ELSE [version |-> vs[<<scope, identifier>>], vs |-> vs]

\* A key with the version values it embeds; 0 where the key embeds none.
QueryKey(kind, token, media_version, list_version) ==
    [kind |-> kind, token |-> token, media_version |-> media_version,
     list_version |-> list_version]

\* The key builders, each for one fixed choice of its other arguments
\* (anonymous user, default listing, one search, default limit).  Each is the
\* key returned and the counters left by the version reads.
get_media_detail_cache_key(vs, friendly_token) ==
    LET v == get_cache_version(vs, "media", friendly_token)
    IN  [key |-> QueryKey("media_detail", friendly_token, v.version, 0), vs |-> v.vs]

get_media_list_cache_key(vs) ==
    LET v == get_cache_version(vs, "media_list", "all")
    IN  [key |-> QueryKey("media_list", "", 0, v.version), vs |-> v.vs]

get_media_search_cache_key(vs) ==
    LET v == get_cache_version(vs, "media_list", "all")
    IN  [key |-> QueryKey("media_search", "", 0, v.version), vs |-> v.vs]

get_related_media_cache_key(vs, friendly_token) ==
    LET mv == get_cache_version(vs, "media", friendly_token)
        lv == get_cache_version(mv.vs, "media_list", "all")
    IN  [key |-> QueryKey("related_media", friendly_token, mv.version, lv.version),
         vs |-> lv.vs]

\* The keys the four builders return for Media m.
KeysFor(vs, m) ==
    { get_media_detail_cache_key(vs, TokenOf(m)), get_media_list_cache_key(vs),
      get_media_search_cache_key(vs), get_related_media_cache_key(vs, TokenOf(m)) }

\* Bound on the number of keys remembered as handed out.
MaxIssued == 2

\* An API view builds one of the keys for Media m.
IssueKey(m) ==
    \E b \in KeysFor(versions, m) :
        /\ Cardinality(issued.before \cup issued.since \cup {b.key}) <= MaxIssued
        /\ versions' = b.vs
        /\ issued' = [issued EXCEPT !.since = @ \cup {b.key}]
        /\ UNCHANGED <<roles, media, encodings, subtitles, pathCache, reverseIndex,
                       permCache, resp, inflight>>

\* A version counter reaches its TTL (CACHE_VERSION_TIMEOUT, set when the
\* counter was initialised and kept across increments).
ExpireVersion(k) ==
    /\ versions[k] # 0
    /\ versions' = [versions EXCEPT ![k] = 0]
    /\ UNCHANGED <<roles, media, encodings, subtitles, pathCache, reverseIndex,
                   permCache, resp, issued, inflight>>

InitVersions ==
    /\ roles = [u \in Users |-> {}]
    /\ media = [m \in MediaIds |-> IF m = 1 THEN MediaA("alice", "public", "") ELSE MediaB]
    /\ encodings = Encodings0
    /\ subtitles = Subtitles0
    /\ EmptyCaches

NextVersions ==
    \/ IssueKey(1)
    \/ invalidate_media_cache(1)
    \/ \E k \in { <<"media", TokenOf(1)>>, <<"media_list", "all">> } : ExpireVersion(k)

SpecVersions == InitVersions /\ [][NextVersions]_vars

\* C17: after a bump of a counter, no key that embeds a value of the counter
\* handed out before the bump is handed out again, also after the counter
\* has expired: the counter never again returns a value it returned before
\* the bump.
C17_OldKeysStayUnreachable == issued.before \cap issued.since = {}

\* C18: invalidate_media_cache(token) changes the counter media:token and
\* the counter media_list:all, and the media-detail key of the token and the
\* media-list, media-search and related-media keys built after the call
\* differ from every key handed out before it.
C18_InvalidateChangesKeys ==
    [][invalidate_media_cache(1)
          => /\ versions'[<<"media", TokenOf(1)>>] # versions[<<"media", TokenOf(1)>>]
             /\ versions'[<<"media_list", "all">>] # versions[<<"media_list", "all">>]
             /\ \A b \in KeysFor(versions, 1)' :
                   b.key \notin issued.before \cup issued.since]_vars

\* ------------------------------------------ thumbnails recorded as absolute paths

\* settings.MEDIA_ROOT, written with and without its trailing slash.
MediaRootSlash ==
    <<"/", "home", "/", "cinemata", "/", "cinematacms", "/", "media_files", "/">>

MediaRootNoSlash == <<"/", "home", "/", "cinemata", "/", "cinematacms", "/", "media_files">>

MediaRoots == { MediaRootSlash, MediaRootNoSlash }

AbsThumbP == "/home/cinemata/cinematacms/media_files/original/thumbnails/user/alice/thumb.jpg"

OtherAbsThumbP == "/home/other/media_files/original/thumbnails/user/alice/thumb.jpg"

RecordedThumbs == { ThumbP, AbsThumbP, OtherAbsThumbP }

\* The relative form of a recorded path: the path after MEDIA_ROOT and its
\* slash when it starts with them, the path itself otherwise.
normalize_to_relative(path, media_root) ==
    LET root == IF media_root # <<>> /\ media_root[Len(media_root)] = "/"
                THEN media_root ELSE media_root \o <<"/">>
    IN  IF StartsWith(path, root) THEN SubSeq(path, Len(root) + 1, Len(path)) ELSE path

\* Media A of alice records its thumbnail as a relative path, as an absolute
\* path under MEDIA_ROOT or as an absolute path elsewhere; Media B records
\* video_thumb.jpg.
InitNormalize ==
    /\ roles = [u \in Users |-> {}]
    /\ \E t \in RecordedThumbs, s \in {"public", "private"} :
           media = [m \in MediaIds |->
                       IF m = 1 THEN [MediaA("alice", s, "") EXCEPT !.thumbnail = t,
                                                                    !.poster = ""]
                       ELSE MediaB]
    /\ encodings = Encodings0
    /\ subtitles = Subtitles0
    /\ EmptyCaches

NormalizeRequests == { Atoms(ThumbP), Atoms(ThumbVT), Atoms(AbsThumbP) }

RequestNormalize ==
    \E u \in {Anonymous, "alice"}, p \in NormalizeRequests : HandleRequest(u, p, "", "")

NextNormalize ==
    \/ RequestNormalize
    \/ \E t \in RecordedThumbs : SetThumbnail(1, t)
    \/ \E p \in DOMAIN pathCache : ExpirePath(p)
    \/ invalidate_media_path_cache(1)

SpecNormalize == InitNormalize /\ [][NextNormalize]_vars

\* C19: a Media verifies as the owner of a requested thumbnail path exactly
\* when one of its recorded paths, brought to relative form, equals the
\* request: a path recorded as MEDIA_ROOT (with or without trailing slash)
\* followed by the relative path verifies against that relative path, a
\* recorded relative path is compared as it is, and a path recorded under
\* another absolute prefix stays as it is and does not verify.
C19_VerifiesNormalisedPaths ==
    \A media_root \in MediaRoots, m \in MediaIds, p \in NormalizeRequests :
        media[m].exists
            => (verify_media_owns_thumbnail_path(m, p)
                   <=> \E f \in thumbnail_paths(m) :
                          normalize_to_relative(f, media_root) = p)

\* ----------------------------- authorization checks interleaved with changes

\* The caller has no call under way.
Idle(user) == IF user \in DOMAIN inflight THEN inflight[user].pc = "done" ELSE TRUE

\* A request up to the point where _check_access_permission has computed its
\* decision from the Media it resolved: answered at once when no decision is
\* computed (bad, public or non-video path, no Media, open state, cached
\* decision); otherwise the decision waits to be written to the cache.
CheckStart(user, raw_path, session_password_hash, query_password) ==
    LET file_path == unquote(raw_path)
        computes(c) ==
            /\ c.res.media # NoMedia
            /\ ~check_access_permission(user, session_password_hash, query_password,
                                        c.res.media, permCache).hit
            /\ ~is_open_state(c.res.media)
    IN
    /\ Idle(user)
    /\ IF \/ ~is_valid_file_path(file_path)
          \/ is_public_media_file(file_path)
          \/ is_non_video_file(file_path)
          \/ \A c \in get_media_from_path_cached(file_path) : ~computes(c)
       THEN HandleRequest(user, raw_path, session_password_hash, query_password)
       ELSE \E c \in get_media_from_path_cached(file_path) :
               LET m == c.res.media
                   chk == check_access_permission(user, session_password_hash,
                                                  query_password, m, permCache)
                   calc == calculate_access_permission(user, session_password_hash,
                                                       query_password, m, permCache)
                   serving_path == IF c.res.actual # NoPath THEN c.res.actual
                                   ELSE Str(file_path)
                   answer == [NoResp EXCEPT
                                 !.raw = raw_path, !.path = file_path, !.user = user,
                                 !.session = session_password_hash,
                                 !.query = query_password,
                                 !.media = m, !.via = c.via, !.override = c.res.actual,
                                 !.status = IF chk.result THEN 200 ELSE 403,
                                 !.nostore = ~chk.result,
                                 !.served = IF chk.result THEN serving_path ELSE NoPath,
                                 !.permKey = chk.key, !.elevHit = chk.elevHit]
               IN  /\ computes(c)
                   /\ pathCache' = c.pc
                   /\ reverseIndex' = c.ri
                   /\ media' = backfill_media(c.res, file_path)
                   /\ encodings' = backfill_encoding(c.res, file_path)
                   /\ permCache' = calc.cache
                   /\ Cardinality(DOMAIN chk.cache) <= MaxPermEntries
                   /\ inflight' =
                          [u \in DOMAIN inflight \cup {user} |->
                              IF u = user
                              THEN [pc |-> "write", key |-> chk.key,
                                    result |-> chk.result, answer |-> answer,
                                    readVer |-> versions[<<"media", TokenOf(m)>>],
                                    writeVer |-> 0]
                              ELSE inflight[u]]
                   /\ UNCHANGED <<roles, subtitles, versions, issued, resp>>

\* set_cached_permission(cache_key, result, cache_timeout) of the waiting
\* check, and the response.
CheckFinish(user) ==
    /\ user \in DOMAIN inflight /\ inflight[user].pc = "write"
    /\ LET call == inflight[user]
           ver == versions[<<"media", TokenOf(call.answer.media)>>]
       IN  /\ permCache' = set_cached_permission(permCache, call.key, call.result)
           /\ resp' = [call.answer EXCEPT !.ver = ver]
           /\ inflight' = [inflight EXCEPT ![user].pc = "done", ![user].writeVer = ver]
    /\ UNCHANGED <<roles, media, encodings, subtitles, pathCache, reverseIndex,
                   versions, issued>>

\* Media A of alice is restricted with password p1; nobody holds a role.
InitRace ==
    /\ roles = [u \in Users |-> {}]
    /\ media = [m \in MediaIds |-> IF m = 1 THEN MediaA("alice", "restricted", "p1")
                                    ELSE MediaB]
    /\ encodings = Encodings0
    /\ subtitles = Subtitles0
    /\ EmptyCaches

RequestRace == \E q \in {"", "p1"} : CheckStart("carol", Atoms(OrigA), "", q)

NextRace ==
    \/ RequestRace
    \/ CheckFinish("carol")
    \/ \E p \in {"p1", "p2"} : ChangePassword(1, p)
    \/ \E k \in DOMAIN permCache : ExpirePermission(k)

SpecRace == InitRace /\ [][NextRace]_vars

\* The check of caller u computed an allow before a version bump and wrote
\* it to the cache after the bump.
LateAllow(u) ==
    /\ u \in DOMAIN inflight
    /\ inflight[u].pc = "done" /\ inflight[u].result
    /\ inflight[u].readVer < inflight[u].writeVer

\* C21: a check that read the data of an Asset before its change, and writes
\* its allow into the cache after the version bump of the change has
\* completed, makes no later request allowed: no request after the write is
\* answered 200 from the entry it wrote.
C21_LateWriteAllowsNobody ==
    \A u \in DOMAIN inflight :
        LateAllow(u)
            => ~(/\ resp.permHit /\ resp.status = 200
                 /\ resp.permKey = inflight[u].key
                 /\ resp.ver >= inflight[u].writeVer)

\* -------------------------------------- concurrent calls on one version counter

\* The counter the concurrent calls work on, and the callers.
CounterKey == <<"media", "tok-a">>

Workers == {"w1", "w2", "w3"}

\* The counter value found by the first of the calls, were v found now.
StartOf(v) ==
    IF DOMAIN inflight = {} THEN v
    ELSE inflight[CHOOSE w \in DOMAIN inflight : TRUE].start

\* The calls under way with the call of worker w at position pc, having read
\* the counter value v.
Calling(w, op, pc, v) ==
    [u \in DOMAIN inflight \cup {w} |->
        IF u = w THEN [op |-> op, pc |-> pc, current |-> v, start |-> StartOf(v)]
        ELSE inflight[u]]

\* _get_cache_version: cache.get(version_key); a stored value is returned.
GetVersionRead(w) ==
    /\ Idle(w)
    /\ LET version == versions[CounterKey]
       IN  inflight' = Calling(w, "get", IF version = 0 THEN "init" ELSE "done", version)
    /\ UNCHANGED <<roles, media, encodings, subtitles, pathCache, reverseIndex,
                   permCache, versions, resp, issued>>

\* _bump_cache_version: cache.get(version_key).
BumpRead(w) ==
    /\ Idle(w)
    /\ versions[CounterKey] < MaxVersion
    /\ LET current_version == versions[CounterKey]
       IN  inflight' = Calling(w, "bump", IF current_version = 0 THEN "init" ELSE "incr",
                               current_version)
    /\ UNCHANGED <<roles, media, encodings, subtitles, pathCache, reverseIndex,
                   permCache, versions, resp, issued>>

\* cache.set(version_key, 1, CACHE_VERSION_TIMEOUT) of a call that found no
\* counter, in _get_cache_version and in _bump_cache_version.
InitVersion(w) ==
    /\ w \in DOMAIN inflight /\ inflight[w].pc = "init"
    /\ versions' = [versions EXCEPT ![CounterKey] = 1]
    /\ inflight' = [inflight EXCEPT ![w].pc = "done"]
    /\ UNCHANGED <<roles, media, encodings, subtitles, pathCache, reverseIndex,
                   permCache, resp, issued>>

BumpFallback_NoIncrement(w) ==
    /\ w \in DOMAIN inflight /\ inflight[w].pc = "incr"
    /\ versions' = [versions EXCEPT ![CounterKey] = inflight[w].current]
    /\ inflight' = [inflight EXCEPT ![w].pc = "done"]
    /\ UNCHANGED <<roles, media, encodings, subtitles, pathCache, reverseIndex,
                   permCache, resp, issued>>

\* The backend has no incr: cache.set(version_key, current_version + 1,
\* CACHE_VERSION_TIMEOUT).
BumpFallback(w) ==
    /\ w \in DOMAIN inflight /\ inflight[w].pc = "incr"
    /\ versions' = [versions EXCEPT ![CounterKey] = inflight[w].current + 1]
    /\ inflight' = [inflight EXCEPT ![w].pc = "done"]
    /\ UNCHANGED <<roles, media, encodings, subtitles, pathCache, reverseIndex,
                   permCache, resp, issued>>

\* cache.incr(version_key) of a backend that increments atomically; it raises
\* ValueError when the key is gone, and the call falls back.
BumpIncr(w) ==
    IF versions[CounterKey] = 0 THEN BumpFallback(w)
    ELSE /\ w \in DOMAIN inflight /\ inflight[w].pc = "incr"
         /\ versions' = [versions EXCEPT ![CounterKey] = @ + 1]
         /\ inflight' = [inflight EXCEPT ![w].pc = "done"]
         /\ UNCHANGED <<roles, media, encodings, subtitles, pathCache, reverseIndex,
                        permCache, resp, issued>>

\* No counter is stored yet, or the counter holds 1 or 2.
InitCounter ==
    /\ roles = [u \in Users |-> {}]
    /\ media = [m \in MediaIds |-> IF m = 1 THEN MediaA("alice", "public", "") ELSE MediaB]
    /\ encodings = Encodings0
    /\ subtitles = Subtitles0
    /\ pathCache = <<>>
    /\ reverseIndex = [m \in MediaIds |-> {}]
    /\ permCache = <<>>
    /\ \E v \in 0..2 : versions = [k \in VersionKeys |-> IF k = CounterKey THEN v ELSE 0]
    /\ resp = NoResp
    /\ issued = [before |-> {}, since |-> {}]
    /\ inflight = <<>>

\* Reads and bumps by the workers, on a backend with an atomic incr.
NextCounter ==
    \E w \in Workers :
        \/ GetVersionRead(w)
        \/ BumpRead(w)
        \/ InitVersion(w)
        \/ BumpIncr(w)

SpecCounter == InitCounter /\ [][NextCounter]_vars

\* C22: however reads (with their initialisation to 1) and bumps of one
\* counter interleave, every change of the stored value is an increment by
\* one, the first value 1 included; the value never decreases.
C22_CounterOnlyIncrements ==
    [][versions'[CounterKey] \in {versions[CounterKey], versions[CounterKey] + 1}]_vars

\* One bump by each worker on a stored counter, on a backend without incr.
InitFallback == InitCounter /\ versions[CounterKey] # 0

BumpOnce(w) == w \notin DOMAIN inflight /\ BumpRead(w)

Racers == Workers \cup {"w4"}

NextFallback == \E w \in Racers : BumpOnce(w) \/ BumpFallback(w)

SpecFallback == InitFallback /\ [][NextFallback]_vars

\* Every worker has made its bump.
AllBumped == \A w \in Racers : w \in DOMAIN inflight /\ inflight[w].pc = "done"

DeleteEncoding(e) ==
    /\ encodings[e].exists
    /\ encodings' = [encodings EXCEPT ![e].exists = FALSE]
    /\ UNCHANGED <<roles, media, subtitles, pathCache, reverseIndex, permCache, versions,
                   resp, issued, inflight>>

\* Media A records thumb.jpg and has the GIF Encoding a.gif; Media B records
\* video_thumb.jpg.
InitHit ==
    /\ roles = [u \in Users |-> {}]
    /\ media = [m \in MediaIds |->
                   IF m = 1 THEN [MediaA("alice", "public", "") EXCEPT !.poster = ""]
                   ELSE MediaB]
    /\ encodings = Encodings0
    /\ subtitles = Subtitles0
    /\ EmptyCaches

RequestHit ==
    \E p \in {ThumbP, ThumbVT, GifA} : HandleRequest(Anonymous, Atoms(p), "", "")

ChangeHit ==
    \/ \E m \in MediaIds, p \in {ThumbP, ThumbVT} : SetThumbnail(m, p)
    \/ DeleteMedia(1)
    \/ DeleteEncoding(2)

NextHit ==
    \/ RequestHit
    \/ ChangeHit
    \/ \E p \in DOMAIN pathCache : ExpirePath(p)

SpecHit == InitHit /\ [][NextHit]_vars

\* Media m exists and records exactly this path: in one of its five
\* thumbnail fields or, for an encoded GIF, as the file of one of its
\* Encodings.
StillRecords(m, path) ==
    /\ media[m].exists
    /\ \/ Str(path) \in { media[m].thumbnail, media[m].poster, media[m].uploaded_thumbnail,
                           media[m].uploaded_poster, media[m].sprites }
       \/ /\ IsEncodedGif(path)
          /\ \E e \in EncodingIds : /\ encodings[e].exists /\ encodings[e].media = m
                                     /\ encodings[e].media_file = Str(path)

\* C24: a request for a thumbnail or encoded-GIF path that finds a forward
\* cache entry is resolved to the cached Asset, the cache left as it is, only
\* when that Asset exists and still records exactly the requested path;
\* otherwise the result is that of a fresh lookup, and the stale entry of an
\* existing Asset is gone: replaced by the fresh result or deleted.
C24_HitTrustedOnlyIfRecorded ==
    [][(/\ resp' # resp
        /\ StartsWith(resp'.path, ThumbPrefix) \/ IsEncodedGif(resp'.path)
        /\ Str(resp'.path) \in DOMAIN pathCache)
          => LET path == resp'.path
                 key == Str(path)
                 id == pathCache[key]
             IN  IF StillRecords(id, path)
                 THEN resp'.media = id /\ resp'.via = "cache" /\ pathCache' = pathCache
                 ELSE /\ resp'.via \in {"evicted", "stale"}
                      /\ \E r \in get_media_from_path(path) : resp'.media = r.media
                      /\ IF resp'.media # NoMedia
                         THEN key \in DOMAIN pathCache' /\ pathCache'[key] = resp'.media
                         ELSE media[id].exists => key \notin DOMAIN pathCache']_vars

\* A request for the GIF hit an entry of an existing Asset that no longer
\* records it; the entry was deleted and the fresh lookup found no Asset.
C24_Witness ==
    /\ resp.via = "evicted" /\ IsEncodedGif(resp.path)
    /\ resp.status = 404
    /\ Str(resp.path) \notin DOMAIN pathCache

\* ------------------------------------------ the reverse index of the path cache

\* The number invalidate_media_path_cache(media_id) returns: one for every
\* key of the reverse mapping, cache.delete raising nothing.
deleted_count(m) == Cardinality(reverseIndex[m])

\* Media A records thumb.jpg, Media B video_thumb.jpg; nothing expires.
InitIndex == InitHit

RequestIndex ==
    \E p \in {ThumbP, ThumbVT, OrigA} : HandleRequest(Anonymous, Atoms(p), "", "")

NextIndex ==
    \/ RequestIndex
    \/ \E m \in MediaIds, p \in {ThumbP, ThumbVT} : SetThumbnail(m, p)
    \/ \E m \in MediaIds : invalidate_media_path_cache(m)

SpecIndex == InitIndex /\ [][NextIndex]_vars

\* The forward entries that map to Media m.
EntriesOf(m) == { k \in DOMAIN pathCache : pathCache[k] = m }

\* A request was resolved to a Media: the forward entry of its path maps to
\* that Media and its key is in the Media's reverse index.  A request resolved
\* to no Media left the forward entries as they were or fewer.
ResolutionIndexed ==
    (resp' # resp /\ resp'.via \in {"cache", "fresh", "evicted", "stale"})
        => IF resp'.media # NoMedia
           THEN /\ Str(resp'.path) \in DOMAIN pathCache'
                /\ pathCache'[Str(resp'.path)] = resp'.media
                /\ Str(resp'.path) \in reverseIndex'[resp'.media]
           ELSE \A k \in DOMAIN pathCache' :
                   k \in DOMAIN pathCache /\ pathCache'[k] = pathCache[k]

\* invalidate_media_path_cache(m) right after a request resolved to Media m.
InvalidationExact(m) ==
    (resp.media = m /\ invalidate_media_path_cache(m))
        => /\ DOMAIN pathCache' \cap reverseIndex[m] = {}
           /\ reverseIndex'[m] = {}
           /\ deleted_count(m) = Cardinality(DOMAIN pathCache \ DOMAIN pathCache')
           /\ media' = media
           /\ \A o \in MediaIds \ {m} :
                  /\ reverseIndex'[o] = reverseIndex[o]
                  /\ \A k \in EntriesOf(o) :
                         k \in DOMAIN pathCache' /\ pathCache'[k] = o

\* C25: a successful resolution leaves the forward entry of the path mapped
\* to the resolved Asset and its key in that Asset's reverse index, a failed
\* one writes no forward entry; a following invalidate_media_path_cache of
\* that Asset deletes the forward entries of its reverse index and the index,
\* returns the number of entries it deleted, and leaves the Asset and the
\* entries and indexes of every other Asset as they were.
C25_IndexAndInvalidation ==
    [][ResolutionIndexed /\ \A m \in MediaIds : InvalidationExact(m)]_vars

\* -------------------------- path-cache population racing a bulk invalidation

XA == "original/user/alice/x1.a.mp4"

\* The call of worker w at position pc with these locals, beside the others.
Under(w, call) ==
    [u \in DOMAIN inflight \cup {w} |-> IF u = w THEN call ELSE inflight[u]]

\* A request up to cache.set(cache_key, media_id) of set_cached_media_id:
\* answered at once when nothing is to be cached (bad, public or non-video
\* path, trusted hit, no Media found).
LookupStart(w, user, raw_path) ==
    LET file_path == unquote(raw_path)
        caches(c) == c.via # "cache" /\ c.res.media # NoMedia
    IN
    /\ Idle(w)
    /\ IF \/ ~is_valid_file_path(file_path)
          \/ is_public_media_file(file_path)
          \/ is_non_video_file(file_path)
          \/ \A c \in get_media_from_path_cached(file_path) : ~caches(c)
       THEN HandleRequest(user, raw_path, "", "")
       ELSE \E c \in get_media_from_path_cached(file_path) :
               /\ caches(c)
               /\ pathCache' = c.pc
               /\ media' = backfill_media(c.res, file_path)
               /\ encodings' = backfill_encoding(c.res, file_path)
               /\ inflight' = Under(w, [pc |-> "sadd", user |-> user, raw |-> raw_path,
                                        res |-> c.res, via |-> c.via, existing_keys |-> {}])
               /\ UNCHANGED <<roles, subtitles, reverseIndex, permCache, versions,
                              issued, resp>>

\* The rest of the request once the reverse mapping is written: the
\* authorization check and the response.
LookupAnswer(w, ri) ==
    LET call == inflight[w]
        file_path == unquote(call.raw)
        m == call.res.media
        chk == check_access_permission(call.user, "", "", m, permCache)
        serving_path == IF call.res.actual # NoPath THEN call.res.actual
                        ELSE Str(file_path)
    IN  /\ reverseIndex' = ri
        /\ permCache' = chk.cache
        /\ Cardinality(DOMAIN chk.cache) <= MaxPermEntries
        /\ resp' = [NoResp EXCEPT
                       !.raw = call.raw, !.path = file_path, !.user = call.user,
                       !.media = m, !.via = call.via, !.override = call.res.actual,
                       !.status = IF chk.result THEN 200 ELSE 403,
                       !.nostore = ~chk.result,
                       !.served = IF chk.result THEN serving_path ELSE NoPath,
                       !.permKey = chk.key, !.permHit = chk.hit,
                       !.elevHit = chk.elevHit,
                       !.ver = versions[<<"media", TokenOf(m)>>]]
        /\ inflight' = [inflight EXCEPT ![w].pc = "done"]
        /\ UNCHANGED <<roles, media, encodings, subtitles, pathCache, versions, issued>>

\* cache.sadd(reverse_key, cache_key) of a backend with set operations.
ReverseSadd(w) ==
    /\ w \in DOMAIN inflight /\ inflight[w].pc = "sadd"
    /\ LookupAnswer(w, set_cached_reverse(reverseIndex, unquote(inflight[w].raw),
                                          inflight[w].res.media))

\* The fallback without set operations: existing_keys = cache.get(reverse_key, set()).
ReverseGet(w) ==
    /\ w \in DOMAIN inflight /\ inflight[w].pc = "sadd"
    /\ inflight' = [inflight EXCEPT
                       ![w].pc = "set",
                       ![w].existing_keys = reverseIndex[inflight[w].res.media]]
    /\ UNCHANGED <<roles, media, encodings, subtitles, pathCache, reverseIndex,
                   permCache, versions, resp, issued>>

\* The fallback: cache.set(reverse_key, existing_keys with the key added).
ReverseSet(w) ==
    /\ w \in DOMAIN inflight /\ inflight[w].pc = "set"
    /\ LookupAnswer(w, [reverseIndex EXCEPT
                           ![inflight[w].res.media] =
                               inflight[w].existing_keys
                                   \cup {get_media_path_cache_key(unquote(inflight[w].raw))}])

\* The store replaces the original file of Media m; the signal of the write
\* calls invalidate_media_path_cache(m).
ReplaceFile(m, p) ==
    /\ Idle("signal")
    /\ media[m].exists /\ media[m].media_file # p
    /\ media' = [media EXCEPT ![m].media_file = p, ![m].filename = Str(Split(Atoms(p))[4])]
    /\ inflight' = Under("signal", [pc |-> "smembers", media |-> m, cache_keys |-> {}])
    /\ UNCHANGED <<roles, encodings, subtitles, pathCache, reverseIndex, permCache,
                   versions, resp, issued>>

\* invalidate_media_path_cache: cache_keys = cache.smembers(reverse_key), or
\* cache.get(reverse_key, set()); nothing more is done when it is empty.
InvalidateRead ==
    /\ "signal" \in DOMAIN inflight /\ inflight["signal"].pc = "smembers"
    /\ LET cache_keys == reverseIndex[inflight["signal"].media]
       IN  inflight' = [inflight EXCEPT
                           !["signal"].pc = IF cache_keys = {} THEN "done" ELSE "delete",
                           !["signal"].cache_keys = cache_keys]
    /\ UNCHANGED <<roles, media, encodings, subtitles, pathCache, reverseIndex,
                   permCache, versions, resp, issued>>

\* invalidate_media_path_cache: cache.delete of every key read, then of the
\* reverse mapping.
InvalidateDelete ==
    /\ "signal" \in DOMAIN inflight /\ inflight["signal"].pc = "delete"
    /\ pathCache' = [k \in DOMAIN pathCache \ inflight["signal"].cache_keys |-> pathCache[k]]
    /\ reverseIndex' = [reverseIndex EXCEPT ![inflight["signal"].media] = {}]
    /\ inflight' = [inflight EXCEPT !["signal"].pc = "done"]
    /\ UNCHANGED <<roles, media, encodings, subtitles, permCache, versions, resp, issued>>

\* Media A records a.mp4 and thumb.jpg.
InitPopulate == InitHit

PopulateWorkers == {"w1"}

NextPopulate ==
    \/ \E w \in PopulateWorkers, p \in {OrigA, ThumbP} : LookupStart(w, Anonymous, Atoms(p))
    \/ \E w \in PopulateWorkers : ReverseSadd(w) \/ ReverseGet(w) \/ ReverseSet(w)
    \/ \E p \in {OrigA, XA} : ReplaceFile(1, p)
    \/ InvalidateRead
    \/ InvalidateDelete
    \/ ExpireReverse(1)

SpecPopulate == InitPopulate /\ [][NextPopulate]_vars

\* Media m exists and records the path: as its original file, in a thumbnail
\* field, or as the file of one of its Encodings or Subtitles.
OwnsPath(m, path) ==
    /\ media[m].exists
    /\ \/ Str(path) \in { media[m].media_file, media[m].thumbnail, media[m].poster,
                           media[m].uploaded_thumbnail, media[m].uploaded_poster,
                           media[m].sprites }
       \/ \E e \in EncodingIds : /\ encodings[e].exists /\ encodings[e].media = m
                                  /\ encodings[e].media_file = Str(path)
       \/ \E t \in SubtitleIds : /\ subtitles[t].exists /\ subtitles[t].media = m
                                  /\ subtitles[t].subtitle_file = Str(path)

\* C26: once the invalidation that follows a change of an Asset's paths has
\* run, however it interleaved with the population of the path cache and
\* with the expiry of the reverse index, a request answered from a forward
\* entry is resolved to an Asset that records the requested path.
C26_SurvivingEntryCaught ==
    [][(/\ resp' # resp /\ resp'.via = "cache"
        /\ Idle("signal"))
          => OwnsPath(resp'.media, resp'.path)]_vars

\* ------------------------------------------- clearing the whole query cache

get_playlist_detail_cache_key(vs, friendly_token) ==
    LET v == get_cache_version(vs, "playlist", friendly_token)
    IN  [key |-> QueryKey("playlist_detail", friendly_token, v.version, 0), vs |-> v.vs]

\* The keys the five builders return for Media m and the playlist pl-1.
AllKeysFor(vs, m) == KeysFor(vs, m) \cup { get_playlist_detail_cache_key(vs, "pl-1") }

\* An API view builds one of the five keys.
IssueAnyKey(m) ==
    \E b \in AllKeysFor(versions, m) :
        /\ Cardinality(issued.before \cup issued.since \cup {b.key}) <= MaxIssued
        /\ versions' = b.vs
        /\ issued' = [issued EXCEPT !.since = @ \cup {b.key}]
        /\ UNCHANGED <<roles, media, encodings, subtitles, pathCache, reverseIndex,
                       permCache, resp, inflight>>

\* invalidate_all_query_cache(), as manage_query_cache --clear calls it: the
\* counter media_list:all is bumped, no other.
invalidate_all_query_cache ==
    /\ \A k \in VersionKeys : versions[k] < MaxVersion
    /\ versions' = bump_cache_version(versions, "media_list", "all")
    /\ issued' = bump_issued(issued, <<"media_list", "all">>)
    /\ UNCHANGED <<roles, media, encodings, subtitles, pathCache, reverseIndex,
                   permCache, resp, inflight>>

InitClear == InitVersions

NextClear ==
    \/ IssueAnyKey(1)
    \/ invalidate_all_query_cache
    \/ invalidate_media_cache(1)

SpecClear == InitClear /\ [][NextClear]_vars

\* C27: the keys the media-detail, playlist-detail, media-list, media-search
\* and related-media builders return once invalidate_all_query_cache() has
\* returned all differ from every key the builders returned before the call.
C27_ClearChangesEveryKey ==
    [][invalidate_all_query_cache
          => \A b \in AllKeysFor(versions, 1)' :
                b.key \notin issued.before \cup issued.since]_vars

\* ------------------------------------------------- the folders under hls/

\* Media A of alice in any state, with a password when restricted.
InitHls ==
    /\ roles = [u \in Users |-> {}]
    /\ \E st \in States :
           media = [m \in MediaIds |->
                       IF m = 1
                       THEN MediaA("alice", st, IF st = "restricted" THEN "p1" ELSE "")
                       ELSE MediaB]
    /\ encodings = Encodings0
    /\ subtitles = Subtitles0
    /\ EmptyCaches

\* Folder segments: the identifier of Media A, hexadecimal digits too few
\* to be an identifier, eight characters that are no digits, and two
\* base-16 literals that are not made of hexadecimal digits alone.
HlsPaths ==
    { HlsPrefix \o <<"uid-a", "/", "x", ".m3u8">>,
      HlsPrefix \o <<"uid-a", "/", "x", ".jpg">>,
      HlsPrefix \o <<"abc", "/", "x", ".m3u8">>,
      HlsPrefix \o <<"zzzzzzzz", "/", "x", ".ts">>,
      HlsPrefix \o <<"0x1234567", "/", "x", ".m3u8">>,
      HlsPrefix \o <<"1234_5678", "/", "x", ".jpg">> }

RequestHls ==
    \E u \in {Anonymous, "alice"}, p \in HlsPaths : HandleRequest(u, p, "", "")

NextHls ==
    \/ RequestHls
    \/ \E k \in DOMAIN permCache : ExpirePermission(k)
    \/ \E p \in DOMAIN pathCache : ExpirePath(p)

SpecHls == InitHls /\ [][NextHls]_vars

\* The folder segment of an hls/ path is made of 8 to 64 hexadecimal digits
\* and of nothing else.
HexFolder(path) ==
    /\ Len(Split(path)) >= 3
    /\ Len(Split(path)[2]) = 1
    /\ HexLen(Split(path)[2][1]) >= 8
    /\ HexLen(Split(path)[2][1]) <= 64

\* C28: for a path hls/{folder}/..., resolution queries the Media table by
\* identifier only when the folder segment is 8 to 64 hexadecimal digits
\* and nothing else; for every other folder segment it finds no Media
\* without a query; and no request for a path under hls/ is answered as a
\* public or a non-video file, whatever the extension.
C28_HlsFolderIsHexIdentifier ==
    (resp.status # 0 /\ StartsWith(resp.path, HlsPrefix))
        => /\ hls_lookup(resp.path) # {} => HexFolder(resp.path)
           /\ ~HexFolder(resp.path) => resp.media = NoMedia
           /\ resp.via \notin {"public", "non_video"}

\* The second and the third part of C28 apart.
C28_NoMediaForOtherFolders ==
    (resp.status # 0 /\ StartsWith(resp.path, HlsPrefix) /\ ~HexFolder(resp.path))
        => resp.media = NoMedia /\ resp.status = 404

C28_HlsAlwaysAuthorized ==
    (resp.status # 0 /\ StartsWith(resp.path, HlsPrefix))
        => /\ resp.via \notin {"public", "non_video"}
           /\ resp.status = 200 => /\ resp.media = 1
                                    /\ (resp.user = "alice" \/ media[1].state \in {"public", "unlisted"})

\* ------------------------------------------- what a request writes to rows

EncXA == "encoded/22/alice/x1.a.mp4"

\* Media A of alice is public or private; its file is x1.a.mp4 and its
\* filename field is filled or still empty.  The file of its Encoding of
\* profile 22 has the same name, and the filename field of that row is empty.
InitFrame ==
    /\ roles = [u \in Users |-> {}]
    /\ \E st \in {"public", "private"}, fn \in {"x1.a.mp4", ""} :
           media = [m \in MediaIds |->
                       IF m = 1
                       THEN [MediaA("alice", st, "") EXCEPT !.media_file = XA, !.filename = fn]
                       ELSE MediaB]
    /\ encodings = [Encodings0 EXCEPT ![1].media_file = EncXA, ![1].filename = ""]
    /\ subtitles = Subtitles0
    /\ EmptyCaches

\* The recorded paths, paths whose file name is the end of a recorded file
\* name, paths in the directory of another user, and a malformed path.
FramePaths ==
    { Atoms(XA), Atoms(OrigA), Atoms(OrigBobA),
      Atoms(EncXA), Atoms(EncA),
      Atoms(SubA),
      OriginalPrefix \o <<"alice", "/", "..", "/", "bob", "/", "b", ".mp4">> }

RequestFrame ==
    \E p \in FramePaths : HandleRequest(Anonymous, p, "", "")

NextFrame ==
    \/ RequestFrame
    \/ \E m \in MediaIds : invalidate_media_path_cache(m)

SpecFrame == InitFrame /\ [][NextFrame]_vars

\* The request for path resolved Media m in the owner-plus-suffix step
\* and filled its empty filename field with the requested file name.
MediaBackfilled(m, path) ==
    /\ media[m].filename = ""
    /\ media'[m] = [media[m] EXCEPT !.filename = Str(LastPart(path))]
    /\ StartsWith(path, OriginalPrefix)
    /\ <<media[m].user>> = Split(path)[3]
    /\ EndsWith(FileOf(m), LastPart(path))
    /\ resp'.media = m

EncodingBackfilled(e, path) ==
    /\ encodings[e].filename = ""
    /\ encodings'[e] = [encodings[e] EXCEPT !.filename = Str(LastPart(path))]
    /\ StartsWith(path, EncodedPrefix)
    /\ <<media[encodings[e].media].user>> = Split(path)[3]
    /\ EndsWith(EncFileOf(e), LastPart(path))
    /\ resp'.media = encodings[e].media

\* C29: a request creates and deletes no Media, Encoding or Subtitle row and
\* changes no field of one, except that the owner-plus-suffix step sets the
\* filename field of the Media or Encoding it matched to the requested file
\* name when that field is empty; a filename that is not empty, and every
\* state, password, owner and recorded path, stay as they were.
C29_RequestsOnlyBackfillFilename ==
    [][RequestFrame
          => /\ \A m \in MediaIds :
                    media'[m] = media[m] \/ MediaBackfilled(m, resp'.path)
             /\ \A e \in EncodingIds :
                    encodings'[e] = encodings[e] \/ EncodingBackfilled(e, resp'.path)
             /\ subtitles' = subtitles
             /\ roles' = roles]_vars

\* Both empty filename fields were filled, each by a request for a shorter
\* file name that its file ends with, and the request for the Encoding's
\* x1.a.mp4 that came later was answered through the suffix step without
\* writing the field.
C29_Witness ==
    /\ media[1].media_file = XA /\ media[1].filename = "a.mp4"
    /\ encodings[1].media_file = EncXA /\ encodings[1].filename = "a.mp4"
    /\ resp.path = Atoms(EncXA) /\ resp.status = 200 /\ resp.media = 1
    /\ resp.via = "fresh"

\* ---------------------------------------------- whose file is delivered

\* alice owns two Media: A is public and its file is x1.a.mp4, B is private
\* and its file is a.mp4.  The filename field of each is filled or, as on a
\* row older than the field, still empty.
InitDeliver ==
    /\ roles = [u \in Users |-> {}]
    /\ \E fa \in {"x1.a.mp4", ""}, fb \in {"a.mp4", ""} :
           media = [m \in MediaIds |->
                       IF m = 1
                       THEN [MediaA("alice", "public", "")
                                EXCEPT !.media_file = XA, !.filename = fa]
                       ELSE [MediaB EXCEPT !.user = "alice", !.state = "private",
                                           !.media_file = OrigA, !.filename = fb]]
    /\ encodings = Encodings0
    /\ subtitles = Subtitles0
    /\ EmptyCaches

DeliverPaths ==
    { Atoms(XA), Atoms(OrigA), Atoms(EncA), Atoms(ThumbP), Atoms(SubA),
      HlsPrefix \o <<"uid-a", "/", "x", ".m3u8">> }

RequestDeliver ==
    \E u \in {Anonymous, "alice"}, p \in DeliverPaths : HandleRequest(u, p, "", "")

NextDeliver ==
    \/ RequestDeliver
    \/ \E m \in MediaIds : invalidate_media_path_cache(m)

SpecDeliver == InitDeliver /\ [][NextDeliver]_vars

\* The path is recorded for Media m: as its original file, in a thumbnail
\* field, as the file of one of its Encodings or Subtitles, or it lies in
\* the hls/ folder named by the identifier of m.
RecordedFor(m, served) ==
    \/ served \in StoredFiles(m)
    \/ /\ StartsWith(Atoms(served), HlsPrefix)
       /\ Split(Atoms(served))[2] = <<UidOf(m)>>

\* C30: whenever a request that is neither public nor generically non-video
\* is delivered, the delivered path is one recorded for the Media whose
\* state the authorization check evaluated; the file of one Media is never
\* delivered on the authorization of another.
C30_DeliveredFileOfCheckedMedia ==
    (resp.status = 200 /\ resp.via \notin {"public", "non_video"})
        => RecordedFor(resp.media, resp.served)

\* The private file of B was delivered to an anonymous caller on the
\* authorization of the public A.
C30_CrossDelivery ==
    /\ resp.status = 200 /\ resp.user = Anonymous
    /\ resp.media = 1 /\ resp.served = OrigA
    /\ media[2].media_file = OrigA /\ media[2].state = "private"

====
